---- MODULE Spec2Model ----
(***************************************************************************)
(* A model of the shape inventory / positional addressing scripts of      *)
(* Ag-ppt-create: scripts/extract_shapes.py (the extraction tool) and     *)
(* scripts/apply_content.py (the content-application tool).               *)
(*                                                                         *)
(* Numbers.  Python computes inches, areas and font sizes in binary       *)
(* floating point.  The model computes the same expressions in exact      *)
(* rational arithmetic: a rational is a pair <<n, d>> in lowest terms     *)
(* with d > 0.  Lengths of the document are integers (EMU).               *)
(*                                                                         *)
(* Text.  A string is a sequence of characters; a character is one of     *)
(* the one-letter strings below, "VT" standing for the vertical tab       *)
(* (\x0b, PowerPoint's soft line break) and "LF" for the line feed.       *)
(***************************************************************************)
EXTENDS Integers, Sequences, FiniteSets, TLC

VARIABLES
    slide,                  \* the shape tree of the slide in the input file
    issues_only,            \* extraction: the --issues-only flag of the run
    extracted,              \* extraction: extract_text_inventory has run
    detected,               \* extraction: the walker's list after detect_overlaps
    shapes_with_positions,  \* extraction: the list after the visual sort
    inventory,              \* extraction: the inventory, by shape key for one
                            \* slide, by slide key for a presentation
    walked,                 \* application: extract_shapes_from_slide has run
    shapes,                 \* application: the sorted list of shape references
    json_data,              \* application: the replacements file of the run
    no_auto_shrink,         \* application: the --no-auto-shrink flag of the run
    exit_code,              \* application: None, or the exit code of the run
    output,                 \* application: None, or the presentation saved
    modified,               \* application: the number of shapes modified
    warnings,               \* application: the auto-adjustment report
    printed,                \* application: the warnings and errors printed
    reextracted,            \* extraction, run again on the output file
    font_args,              \* the arguments of calculate_optimal_font_size
    font_result,            \* None, or the font size it returned
    para_args,              \* the arguments of apply_paragraph_formatting
    para_result,            \* None, or the paragraph it left
    delete_args,            \* the arguments of delete_slides
    delete_result,          \* None, or what delete_slides left and returned
    deck,                   \* the slides of the presentation in the input file
    input_found,            \* application to the deck: the input file exists
    replacements_file,      \* application to the deck: the file, if it exists
    validator,              \* validation: the script that is run
    strict,                 \* validation: the --strict flag of validate_content
    validation,             \* validation: the ValidationResult of the run
    validation_exit,        \* validation: None, or the exit code of the run
    rearrange_args,         \* reorder_slides: the template and the sequence
    rearrange_result,       \* reorder_slides: None, or the exit code and output
    merge_args,             \* merge_slides: the arguments of the call
    merge_result,           \* merge_slides: None, or the count and the output
    workflow_args,          \* resume_workflow: the arguments and the files found
    phases_to_run,          \* resume_workflow: the phases main has yet to run
    tracer_entries,         \* resume_workflow: the entries of the tracer
    trace_file,             \* resume_workflow: the entries saved to the trace
    escalation_file,        \* resume_workflow: None, or the escalation's status
    workflow_exit,          \* resume_workflow: None, or the exit code of the run
    diagram_args,           \* insert_diagram_slides: the files and the config
    diagram_result          \* insert_diagram_slides: None, or the output

extraction_vars ==
    <<issues_only, extracted, detected, shapes_with_positions, inventory>>
walker_vars == <<walked, shapes>>
application_vars ==
    <<json_data, no_auto_shrink, exit_code, output, modified, warnings, printed,
      reextracted>>
font_vars == <<font_args, font_result>>
paragraph_vars == <<para_args, para_result>>

\* The variables of the functions and scripts that are run on their own.
delete_vars == <<delete_args, delete_result>>
deck_vars == <<deck, input_found, replacements_file>>
validation_vars == <<validator, strict, validation, validation_exit>>
rearrange_vars == <<rearrange_args, rearrange_result>>
merge_vars == <<merge_args, merge_result>>
workflow_vars ==
    <<workflow_args, phases_to_run, tracer_entries, trace_file, escalation_file,
      workflow_exit>>
diagram_vars == <<diagram_args, diagram_result>>
script_vars ==
    <<paragraph_vars, delete_vars, deck_vars, validation_vars, rearrange_vars,
      merge_vars, workflow_vars, diagram_vars>>

\* The variables of the extraction and application tools run on a slide.
tool_vars == <<slide, extraction_vars, walker_vars, application_vars, font_vars>>

vars == <<tool_vars, script_vars>>

\* Everything but the variables of one function or script.
but_paragraph_vars ==
    <<tool_vars, delete_vars, deck_vars, validation_vars, rearrange_vars,
      merge_vars, workflow_vars, diagram_vars>>
but_delete_vars ==
    <<tool_vars, paragraph_vars, deck_vars, validation_vars, rearrange_vars,
      merge_vars, workflow_vars, diagram_vars>>
but_deck_vars ==
    <<paragraph_vars, delete_vars, validation_vars, rearrange_vars,
      merge_vars, workflow_vars, diagram_vars>>
but_validation_vars ==
    <<tool_vars, paragraph_vars, delete_vars, deck_vars, rearrange_vars,
      merge_vars, workflow_vars, diagram_vars>>
but_rearrange_vars ==
    <<tool_vars, paragraph_vars, delete_vars, deck_vars, validation_vars,
      merge_vars, workflow_vars, diagram_vars>>
but_merge_vars ==
    <<tool_vars, paragraph_vars, delete_vars, deck_vars, validation_vars,
      rearrange_vars, workflow_vars, diagram_vars>>
but_workflow_vars ==
    <<tool_vars, paragraph_vars, delete_vars, deck_vars, validation_vars,
      rearrange_vars, merge_vars, diagram_vars>>
but_diagram_vars ==
    <<tool_vars, paragraph_vars, delete_vars, deck_vars, validation_vars,
      rearrange_vars, merge_vars, workflow_vars>>

---------------------------------------------------------------------------
(* Bounds of the model. *)

\* The largest number of shapes (groups included) on a slide.
MaxShapes == 3

\* The same, for the slides the walker's filter is checked on.
MaxFilterShapes == 2

\* The number of characters of a long line of text.
LongLine == 20

\* The largest number of shapes on a slide the replacements are applied to.
MaxApplyShapes == 2

---------------------------------------------------------------------------
(* Exact rational arithmetic. *)

Abs(x) == IF x < 0 THEN -x ELSE x

RECURSIVE GCD(_, _)
GCD(a, b) == IF b = 0 THEN a ELSE GCD(b, a % b)

\* n/d in lowest terms, d > 0.
Rat(n, d) == LET g == GCD(Abs(n), d) IN <<n \div g, d \div g>>

RatAdd(a, b) == Rat(a[1] * b[2] + b[1] * a[2], a[2] * b[2])
RatSub(a, b) == Rat(a[1] * b[2] - b[1] * a[2], a[2] * b[2])
RatMul(a, b) == Rat(a[1] * b[1], a[2] * b[2])
RatLt(a, b) == a[1] * b[2] < b[1] * a[2]
RatLe(a, b) == a[1] * b[2] <= b[1] * a[2]
RatMax(a, b) == IF RatLt(a, b) THEN b ELSE a
RatMin(a, b) == IF RatLt(b, a) THEN b ELSE a
Zero == Rat(0, 1)

\* Python's round(x, 2): the nearest multiple of 1/100, a tie going to the
\* even multiple.
Round2(x) ==
    LET num == x[1] * 100
        q   == num \div x[2]
        r   == num % x[2]
        up  == \/ 2 * r > x[2]
               \/ (2 * r = x[2] /\ q % 2 = 1)
    IN Rat(IF up THEN q + 1 ELSE q, 100)

---------------------------------------------------------------------------
(* Geometry utilities. *)

EMU_PER_INCH == 914400

emu_to_inches(emu) == Rat(emu, EMU_PER_INCH)

---------------------------------------------------------------------------
(* Text. *)

\* The characters str.strip() removes.
Whitespace == {" ", "VT", "LF"}

RECURSIVE lstrip(_)
lstrip(s) ==
    IF s # <<>> /\ Head(s) \in Whitespace THEN lstrip(Tail(s)) ELSE s

RECURSIVE rstrip(_)
rstrip(s) ==
    IF s # <<>> /\ s[Len(s)] \in Whitespace
    THEN rstrip(SubSeq(s, 1, Len(s) - 1))
    ELSE s

strip(s) == rstrip(lstrip(s))

\* "\n".join(p.text for p in paragraphs): the text of a text frame.
RECURSIVE text_frame_text(_)
text_frame_text(paragraphs) ==
    IF paragraphs = <<>> THEN <<>>
    ELSE IF Len(paragraphs) = 1 THEN paragraphs[1]
    ELSE paragraphs[1] \o <<"LF">> \o text_frame_text(Tail(paragraphs))

---------------------------------------------------------------------------
(* The shape tree.  A node is a record; a group holds its children in      *)
(* shapes.  left and top are the node's local offsets in EMU (an absent    *)
(* offset reads as 0 in both tools: "shape.left or 0").  ph_type is the    *)
(* name of the placeholder type, "" for a shape that is no placeholder.    *)
(* A shape is referred to by its path, the child indices from the slide.   *)

GROUP == 6

\* The names of the placeholder types of the presentation library.
PlaceholderTypes ==
    {"TITLE", "BODY", "CENTER_TITLE", "SUBTITLE", "DATE", "SLIDE_NUMBER",
     "FOOTER", "HEADER", "OBJECT", "CHART", "TABLE", "BITMAP", "MEDIA_CLIP",
     "ORG_CHART", "PICTURE", "SLIDE_IMAGE", "VERTICAL_BODY",
     "VERTICAL_OBJECT", "VERTICAL_TITLE", "MIXED"}

\* needle in str(placeholder.type): among the type names, only the name
\* SLIDE_NUMBER contains "SLIDE_NUMBER", only FOOTER "FOOTER", only DATE "DATE".
PlaceholderTypeContains(name, needle) == name = needle

Node(type, l, t, w, h, frame, paras, ph, children) ==
    [shape_type |-> type, left |-> l, top |-> t, width |-> w, height |-> h,
     has_text_frame |-> frame, paragraphs |-> paras, ph_type |-> ph,
     shapes |-> children]

\* A run <a:r> of a paragraph: its text and the attributes of its font
\* (absent attributes are the empty sequence, present ones <<value>>;
\* sz is the size in hundredths of a point, solidFill the colour of the
\* font, unset in a new run).
Run(text, sz, latin, b, i, u) ==
    [text |-> text, sz |-> sz, latin |-> latin, b |-> b, i |-> i, u |-> u,
     solidFill |-> <<>>]

\* A paragraph <a:p>: its runs and its properties <a:pPr>.  bu is the
\* sequence of bullet elements of pPr, in document order.
Paragraph(runs, bu, marL, indent, lvl, algn) ==
    [runs |-> runs,
     pPr |-> [bu |-> bu, marL |-> marL, indent |-> indent, lvl |-> lvl,
              algn |-> algn]]

\* A paragraph that add_paragraph() has just created.
EmptyParagraph == Paragraph(<<>>, <<>>, <<>>, <<>>, <<>>, <<>>)

\* A paragraph with one unformatted run.
PlainParagraph(text) ==
    Paragraph(<<Run(text, <<>>, <<>>, <<>>, <<>>, <<>>)>>,
              <<>>, <<>>, <<>>, <<>>, <<>>)

\* paragraph.text: the text of the runs, concatenated.
RECURSIVE runs_text(_)
runs_text(runs) ==
    IF runs = <<>> THEN <<>> ELSE Head(runs).text \o runs_text(Tail(runs))

paragraph_text(paragraph) == runs_text(paragraph.runs)

\* paragraph.level: the lvl attribute, 0 when absent.
paragraph_level(paragraph) ==
    IF paragraph.pPr.lvl = <<>> THEN 0 ELSE paragraph.pPr.lvl[1]

\* The texts of the paragraphs of a text frame.
RECURSIVE paragraph_texts(_)
paragraph_texts(paragraphs) ==
    IF paragraphs = <<>> THEN <<>>
    ELSE <<paragraph_text(Head(paragraphs))>> \o paragraph_texts(Tail(paragraphs))

\* shape.text_frame.text
shape_text(shape) == text_frame_text(paragraph_texts(shape.paragraphs))

---------------------------------------------------------------------------
(* Length units of the presentation library, as the scripts use them. *)

EMUS_PER_PT == 12700
EMUS_PER_CENTIPOINT == 127

\* font.size.pt: the size attribute (hundredths of a point) as points.
size_pt(sz) == Rat(sz * EMUS_PER_CENTIPOINT, EMUS_PER_PT)

\* The sizes in points, among those of the documents of the model, whose
\* product with 12700 in binary floating point lies below the exact
\* product: 8.2 * 12700 is 104139.99999999999.
FloatShortfall == {Rat(820, 100)}

\* Pt(points): int(points * 12700) EMU.
Pt(points) ==
    (points[1] * EMUS_PER_PT) \div points[2]
    - (IF points \in FloatShortfall THEN 1 ELSE 0)

\* Length.centipoints, the value the font's size attribute is set to.
centipoints(emu) == emu \div EMUS_PER_CENTIPOINT

---------------------------------------------------------------------------
(* extract_shapes.py: the paragraph record. *)

\* text.replace('\x0b', ' ')
RECURSIVE replace_vt(_)
replace_vt(s) ==
    IF s = <<>> THEN <<>>
    ELSE <<IF Head(s) = "VT" THEN " " ELSE Head(s)>> \o replace_vt(Tail(s))

\* The alignments from_paragraph names; any other alignment reads as None.
AlignmentNames == {"LEFT", "CENTER", "RIGHT", "JUSTIFY"}

ParagraphData(text, bullet, level, alignment, font_size, font_name, bold, italic, underline) ==
    [text |-> text, bullet |-> bullet, level |-> level,
     alignment |-> alignment, font_size |-> font_size,
     font_name |-> font_name, bold |-> bold, italic |-> italic,
     underline |-> underline]

HasTag(bu, tag) == \E k \in 1..Len(bu) : bu[k] = tag

from_paragraph(paragraph) ==
    LET text   == replace_vt(strip(paragraph_text(paragraph)))
        bullet == \/ HasTag(paragraph.pPr.bu, "buChar")
                  \/ HasTag(paragraph.pPr.bu, "buAutoNum")
        level  == IF bullet THEN paragraph_level(paragraph) ELSE 0
        algn   == paragraph.pPr.algn
        alignment == IF algn # <<>> /\ algn[1] \in AlignmentNames
                     THEN algn ELSE <<>>
        hasrun == paragraph.runs # <<>>
        run    == paragraph.runs[1]
    IN ParagraphData(
        text, bullet, level, alignment,
        IF hasrun /\ run.sz # <<>> /\ run.sz[1] # 0
            THEN <<size_pt(run.sz[1])>> ELSE <<>>,
        IF hasrun /\ run.latin # <<>> /\ run.latin[1] # "" THEN run.latin ELSE <<>>,
        IF hasrun THEN run.b ELSE <<>>,
        IF hasrun THEN run.i ELSE <<>>,
        IF hasrun THEN run.u ELSE <<>>)

\* ParagraphData.to_dict: a key that is left out is the empty sequence.
para_to_dict(data) ==
    [text |-> data.text,
     bullet |-> IF data.bullet THEN <<TRUE>> ELSE <<>>,
     level |-> IF data.bullet THEN <<data.level>> ELSE <<>>,
     alignment |-> data.alignment,
     font_size |-> data.font_size,
     font_name |-> data.font_name,
     bold |-> data.bold,
     italic |-> data.italic,
     underline |-> data.underline]

---------------------------------------------------------------------------
(* extract_shapes.py: the recursive shape walker. *)

\* The ShapeData of a shape; shape is the path of the shape it was built
\* from.  overlap is a function from shape keys to areas, empty for None.
ShapeData(path, l, t, w, h, ph, dfs, paras) ==
    [shape |-> path, left |-> l, top |-> t, width |-> w, height |-> h,
     placeholder_type |-> ph, default_font_size |-> dfs,
     paragraphs |-> paras, overlap |-> <<>>]

\* The records of the paragraphs whose trimmed text is not empty.
RECURSIVE extract_paragraphs(_)
extract_paragraphs(paragraphs) ==
    IF paragraphs = <<>> THEN <<>>
    ELSE (IF strip(paragraph_text(Head(paragraphs))) # <<>>
          THEN <<from_paragraph(Head(paragraphs))>> ELSE <<>>)
         \o extract_paragraphs(Tail(paragraphs))

\* The first font size among the records, None when there is none.
RECURSIVE first_font_size(_)
first_font_size(datas) ==
    IF datas = <<>> THEN <<>>
    ELSE IF Head(datas).font_size # <<>> /\ Head(datas).font_size[1] # Zero
         THEN Head(datas).font_size
         ELSE first_font_size(Tail(datas))

\* extract_skips_placeholder without the test for "DATE".
extract_skips_placeholder_no_date(shape) ==
    /\ shape.ph_type # ""
    /\ \/ PlaceholderTypeContains(shape.ph_type, "SLIDE_NUMBER")
       \/ PlaceholderTypeContains(shape.ph_type, "FOOTER")

\* The extraction tool's skip of slide-number, footer and date placeholders.
extract_skips_placeholder(shape) ==
    /\ shape.ph_type # ""
    /\ \/ PlaceholderTypeContains(shape.ph_type, "SLIDE_NUMBER")
       \/ PlaceholderTypeContains(shape.ph_type, "FOOTER")
       \/ PlaceholderTypeContains(shape.ph_type, "DATE")

\* extract_shape_text: <<>> for None, <<shape_data>> otherwise.
extract_shape_text(shape, offset_left, offset_top, path) ==
    IF ~shape.has_text_frame THEN <<>>
    ELSE IF strip(shape_text(shape)) = <<>> THEN <<>>
    ELSE IF extract_skips_placeholder(shape) THEN <<>>
    ELSE LET paras == extract_paragraphs(shape.paragraphs)
             data  == ShapeData(path,
                          emu_to_inches(shape.left + offset_left),
                          emu_to_inches(shape.top + offset_top),
                          emu_to_inches(shape.width),
                          emu_to_inches(shape.height),
                          IF shape.ph_type # "" THEN <<shape.ph_type>> ELSE <<>>,
                          first_font_size(paras),
                          paras)
         IN IF paras # <<>> THEN <<data>> ELSE <<>>

\* extract_shapes_from handing a group's children the group's own offset
\* only, the offsets of the groups around it dropped.
RECURSIVE extract_shapes_from_own_offset(_, _, _, _, _)
extract_shapes_from_own_offset(shps, i, offset_left, offset_top, path) ==
    IF i > Len(shps) THEN <<>>
    ELSE LET shape == shps[i]
             here  ==
                IF shape.shape_type = GROUP
                THEN extract_shapes_from_own_offset(shape.shapes, 1,
                                                    shape.left, shape.top,
                                                    Append(path, i))
                ELSE LET shape_data ==
                            extract_shape_text(shape, offset_left, offset_top,
                                               Append(path, i))
                     IN IF shape_data # <<>>
                        THEN << <<shape_data[1], shape.left + offset_left,
                                  shape.top + offset_top>> >>
                        ELSE <<>>
         IN here \o extract_shapes_from_own_offset(shps, i + 1, offset_left,
                                                   offset_top, path)

\* The walk over shps[i..]; path is the path of the collection's owner.
RECURSIVE extract_shapes_from(_, _, _, _, _)
extract_shapes_from(shps, i, offset_left, offset_top, path) ==
    IF i > Len(shps) THEN <<>>
    ELSE LET shape == shps[i]
             here  ==
                IF shape.shape_type = GROUP
                THEN extract_shapes_from(shape.shapes, 1,
                                         shape.left + offset_left,
                                         shape.top + offset_top,
                                         Append(path, i))
                ELSE LET shape_data ==
                            extract_shape_text(shape, offset_left, offset_top,
                                               Append(path, i))
                     IN IF shape_data # <<>>
                        THEN << <<shape_data[1], shape.left + offset_left,
                                  shape.top + offset_top>> >>
                        ELSE <<>>
         IN here \o extract_shapes_from(shps, i + 1, offset_left, offset_top, path)

extract_shapes_recursive(shps, offset_left, offset_top, path) ==
    extract_shapes_from(shps, 1, offset_left, offset_top, path)

---------------------------------------------------------------------------
(* Visual sort.  list.sort(key=...) is stable: an element is placed after  *)
(* every element whose key is not greater.  A keyed list is a sequence of  *)
(* pairs <<key, element>>, a key being the pair <<top, left>> in inches.   *)

KeyLt(k1, k2) ==
    \/ RatLt(k1[1], k2[1])
    \/ (k1[1] = k2[1] /\ RatLt(k1[2], k2[2]))

\* insert_sorted placing an element before the elements of equal key.
RECURSIVE insert_sorted_unstable(_, _)
insert_sorted_unstable(sorted, x) ==
    IF sorted = <<>> THEN <<x>>
    ELSE IF ~KeyLt(Head(sorted)[1], x[1]) THEN <<x>> \o sorted
    ELSE <<Head(sorted)>> \o insert_sorted_unstable(Tail(sorted), x)

RECURSIVE insert_sorted(_, _)
insert_sorted(sorted, x) ==
    IF sorted = <<>> THEN <<x>>
    ELSE IF KeyLt(x[1], Head(sorted)[1]) THEN <<x>> \o sorted
    ELSE <<Head(sorted)>> \o insert_sorted(Tail(sorted), x)

RECURSIVE sort_keyed(_)
sort_keyed(keyed) ==
    IF keyed = <<>> THEN <<>>
    ELSE insert_sorted(sort_keyed(SubSeq(keyed, 1, Len(keyed) - 1)),
                       keyed[Len(keyed)])

\* The elements of a keyed list.
values_of(keyed) == [k \in 1..Len(keyed) |-> keyed[k][2]]

---------------------------------------------------------------------------
(* extract_shapes.py: overlap detection and the inventory. *)

\* f"shape-{idx}" and f"slide-{idx}", idx counted from 0.
ShapeKey(idx) == <<"shape", idx>>
SlideKey(idx) == <<"slide", idx>>

\* The overlap area of entries i and j of the list (0 when the boxes do
\* not intersect).
overlap_area(list, i, j) ==
    LET s1_left   == emu_to_inches(list[i][2])
        s1_top    == emu_to_inches(list[i][3])
        s1_right  == RatAdd(s1_left, list[i][1].width)
        s1_bottom == RatAdd(s1_top, list[i][1].height)
        s2_left   == emu_to_inches(list[j][2])
        s2_top    == emu_to_inches(list[j][3])
        s2_right  == RatAdd(s2_left, list[j][1].width)
        s2_bottom == RatAdd(s2_top, list[j][1].height)
    IN IF /\ RatLt(s1_left, s2_right) /\ RatLt(s2_left, s1_right)
          /\ RatLt(s1_top, s2_bottom) /\ RatLt(s2_top, s1_bottom)
       THEN RatMul(RatSub(RatMin(s1_right, s2_right), RatMax(s1_left, s2_left)),
                   RatSub(RatMin(s1_bottom, s2_bottom), RatMax(s1_top, s2_top)))
       ELSE Zero

\* overlapping recording a pair once, with the later entry only.
overlapping_once(list, i) ==
    {j \in 1..Len(list) : j > i /\ RatLt(Zero, overlap_area(list, i, j))}

\* The indices (from 1) of the entries that entry i overlaps.
overlapping(list, i) ==
    {j \in 1..Len(list) : j # i /\ RatLt(Zero, overlap_area(list, i, j))}

\* detect_overlaps: the list with each shape's overlap set; the key of an
\* overlapping shape is made from its index in the list given.
detect_overlaps(list) ==
    [i \in 1..Len(list) |->
        <<[list[i][1] EXCEPT !.overlap =
              [key \in {ShapeKey(j - 1) : j \in overlapping(list, i)} |->
                  Round2(overlap_area(list, i, key[2] + 1))]],
          list[i][2], list[i][3]>>]

\* ShapeData.to_dict
RECURSIVE paras_to_dict(_)
paras_to_dict(datas) ==
    IF datas = <<>> THEN <<>>
    ELSE <<para_to_dict(Head(datas))>> \o paras_to_dict(Tail(datas))

shape_to_dict(data) ==
    [left |-> Round2(data.left), top |-> Round2(data.top),
     width |-> Round2(data.width), height |-> Round2(data.height),
     placeholder_type |-> data.placeholder_type,
     default_font_size |-> data.default_font_size,
     overlap |-> data.overlap,
     paragraphs |-> paras_to_dict(data.paragraphs)]

\* The walker's list keyed by (x[0].top, x[0].left).
extract_keyed(list) ==
    [k \in 1..Len(list) |-> <<<<list[k][1].top, list[k][1].left>>, list[k]>>]

\* The list of extract_text_inventory after detect_overlaps ...
detected_list(shps) == detect_overlaps(extract_shapes_recursive(shps, 0, 0, <<>>))

\* ... and after the sort.
sorted_list(list) == values_of(sort_keyed(extract_keyed(list)))

\* A shape has issues when its overlap is set (overflow_bottom is never set).
has_issues(shape_data) == DOMAIN shape_data.overlap # {}

\* The slide's part with the keys counted over the shapes that are listed.
slide_inventory_renumbered(list, only_issues) ==
    [key \in {ShapeKey(k - 1) :
                k \in 1..Len(SelectSeq(list, LAMBDA x : only_issues => has_issues(x[1])))}
        |-> shape_to_dict(SelectSeq(list, LAMBDA x :
                              only_issues => has_issues(x[1]))[key[2] + 1][1])]

\* The slide's part of extract_text_inventory: shape key -> dictionary.
slide_inventory(list, only_issues) ==
    [key \in {ShapeKey(k - 1) : k \in {k \in 1..Len(list) :
                                      only_issues => has_issues(list[k][1])}}
        |-> shape_to_dict(list[key[2] + 1][1])]

\* extract_text_inventory on a presentation: slide key -> the slide's part,
\* for the slides whose part is not empty.
extract_text_inventory(prs, only_issues) ==
    [key \in {SlideKey(k - 1) :
                k \in {k \in 1..Len(prs) :
                          DOMAIN slide_inventory(sorted_list(detected_list(prs[k])),
                                                 only_issues) # {}}}
        |-> slide_inventory(sorted_list(detected_list(prs[key[2] + 1])), only_issues)]

---------------------------------------------------------------------------
(* apply_content.py: the walker and sort of the application tool. *)

\* The application tool's skip of slide-number, footer and date placeholders.
apply_skips_placeholder(shape) ==
    /\ shape.ph_type # ""
    /\ \/ PlaceholderTypeContains(shape.ph_type, "SLIDE_NUMBER")
       \/ PlaceholderTypeContains(shape.ph_type, "FOOTER")
       \/ PlaceholderTypeContains(shape.ph_type, "DATE")

\* get_shapes_recursive over shps[i..]: triples <<path, abs_left, abs_top>>.
RECURSIVE get_shapes_from(_, _, _, _, _)
get_shapes_from(shps, i, offset_left, offset_top, path) ==
    IF i > Len(shps) THEN <<>>
    ELSE LET shape == shps[i]
             here  ==
                IF shape.shape_type = GROUP
                THEN get_shapes_from(shape.shapes, 1,
                                     shape.left + offset_left,
                                     shape.top + offset_top,
                                     Append(path, i))
                ELSE IF shape.has_text_frame
                THEN IF strip(shape_text(shape)) = <<>> THEN <<>>
                     ELSE IF apply_skips_placeholder(shape) THEN <<>>
                     ELSE << <<Append(path, i), shape.left + offset_left,
                               shape.top + offset_top>> >>
                ELSE <<>>
         IN here \o get_shapes_from(shps, i + 1, offset_left, offset_top, path)

get_shapes_recursive(shps, offset_left, offset_top, path) ==
    get_shapes_from(shps, 1, offset_left, offset_top, path)

\* apply_keyed with the key's parts exchanged: (left, top).
apply_keyed_left_first(list) ==
    [k \in 1..Len(list) |->
        <<<<emu_to_inches(list[k][2]), emu_to_inches(list[k][3])>>, list[k]>>]

\* The walker's list keyed by (emu_to_inches(x[2]), emu_to_inches(x[1])).
apply_keyed(list) ==
    [k \in 1..Len(list) |->
        <<<<emu_to_inches(list[k][3]), emu_to_inches(list[k][2])>>, list[k]>>]

\* extract_shapes_from_slide: the shapes (their paths) in visual order.
extract_shapes_from_slide(shps) ==
    LET shapes_with_pos ==
            values_of(sort_keyed(apply_keyed(get_shapes_recursive(shps, 0, 0, <<>>))))
    IN [k \in 1..Len(shapes_with_pos) |-> shapes_with_pos[k][1]]

---------------------------------------------------------------------------
(* apply_content.py: the width estimate and the font size that fits. *)

RatDiv(a, b) == Rat(a[1] * b[2], a[2] * b[1])

\* One character of each range the pattern [\u3040-\u309F\u30A0-\u30FF
\* \u4E00-\u9FFF] matches: Hiragana, Katakana, Kanji.
JapaneseChars == {"HIRAGANA", "KATAKANA", "KANJI"}

\* len(re.findall(japanese_pattern, text))
RECURSIVE ja_chars(_)
ja_chars(text) ==
    IF text = <<>> THEN 0
    ELSE (IF Head(text) \in JapaneseChars THEN 1 ELSE 0) + ja_chars(Tail(text))

\* text.split('\n'), cur being the line that is read.
RECURSIVE split_from(_, _)
split_from(text, cur) ==
    IF text = <<>> THEN <<cur>>
    ELSE IF Head(text) = "LF" THEN <<cur>> \o split_from(Tail(text), <<>>)
    ELSE split_from(Tail(text), Append(cur, Head(text)))

split_lines(text) == split_from(text, <<>>)

\* max(lines, key=len) taking the last of the longest lines instead.
RECURSIVE max_by_len_last(_, _)
max_by_len_last(lines, best) ==
    IF lines = <<>> THEN best
    ELSE max_by_len_last(Tail(lines),
                    IF Len(Head(lines)) >= Len(best) THEN Head(lines) ELSE best)

\* max(lines, key=len): the first of the longest lines.
RECURSIVE max_by_len(_, _)
max_by_len(lines, best) ==
    IF lines = <<>> THEN best
    ELSE max_by_len(Tail(lines),
                    IF Len(Head(lines)) > Len(best) THEN Head(lines) ELSE best)

max_line(text) ==
    LET lines == split_lines(text) IN max_by_len(Tail(lines), Head(lines))

\* The estimated width in inches of text at font_size points.
estimate_text_width(text, font_size) ==
    LET ja    == ja_chars(text)
        other == Len(text) - ja
        em    == RatDiv(font_size, Rat(72, 1))
        ja_width    == RatMul(RatMul(Rat(ja, 1), em), Rat(9, 10))
        other_width == RatMul(RatMul(Rat(other, 1), em), Rat(1, 2))
    IN RatAdd(ja_width, other_width)

\* The 5% margin of calculate_optimal_font_size: 0.95.
ShrinkMargin == Rat(95, 100)

\* The default of min_font_size: 12.0 points.
DefaultMinFontSize == Rat(12, 1)

calculate_optimal_font_size(text, shape_width_inches, original_font_size, min_font_size) ==
    LET estimated_width == estimate_text_width(max_line(text), original_font_size)
        available       == RatMul(shape_width_inches, ShrinkMargin)
    IN IF RatLe(estimated_width, available) THEN original_font_size
       ELSE RatMax(RatMul(original_font_size, RatDiv(available, estimated_width)),
                   min_font_size)

\* check_overflow_warning: the warning, or None (the empty sequence).
check_overflow_warning(text, shape_width_inches, font_size, slide_key, shape_key) ==
    LET estimated_width == estimate_text_width(max_line(text), font_size)
    IN IF RatLt(shape_width_inches, estimated_width)
       THEN << <<"Overflow risk", slide_key, shape_key>> >>
       ELSE <<>>

---------------------------------------------------------------------------
(* apply_content.py: a paragraph dictionary applied to a paragraph.  A     *)
(* dictionary is a record; a key is in it when the record has the field    *)
(* and the field is not the empty sequence, its value being the element.   *)
(* The text is the field itself.  A function that can raise returns a      *)
(* record whose field raised tells whether it did.                         *)

dict_has(para_data, key) == key \in DOMAIN para_data /\ para_data[key] # <<>>

\* para_data.get(key, default)
dict_get(para_data, key, default) ==
    IF dict_has(para_data, key) THEN para_data[key][1] ELSE default

\* para_data.get("text", "")
dict_text(para_data) ==
    IF "text" \in DOMAIN para_data THEN para_data.text ELSE <<>>

\* The digits int(s, 16) reads.
HexDigits ==
    {"0", "1", "2", "3", "4", "5", "6", "7", "8", "9",
     "A", "B", "C", "D", "E", "F", "a", "b", "c", "d", "e", "f"}

\* color.lstrip("#")
RECURSIVE lstrip_hash(_)
lstrip_hash(color) ==
    IF color # <<>> /\ Head(color) = "#" THEN lstrip_hash(Tail(color)) ELSE color

\* int(color_hex[0:2], 16), int(color_hex[2:4], 16) and int(color_hex[4:6], 16)
\* raise ValueError unless the two characters are hexadecimal digits.
int16_raises(color_hex) == \E k \in 1..6 : color_hex[k] \notin HexDigits

\* The members of MSO_THEME_COLOR a theme_color can name.
ThemeColorNames ==
    {"ACCENT_1", "ACCENT_2", "ACCENT_3", "ACCENT_4", "ACCENT_5", "ACCENT_6",
     "BACKGROUND_1", "BACKGROUND_2", "DARK_1", "DARK_2", "FOLLOWED_HYPERLINK",
     "HYPERLINK", "LIGHT_1", "LIGHT_2", "TEXT_1", "TEXT_2", "MIXED",
     "NOT_THEME_COLOR"}

\* font.size = Pt(para_data["font_size"]) and the like, each when the
\* dictionary has the key.
with_size(run, para_data) ==
    IF dict_has(para_data, "font_size")
    THEN [run EXCEPT !.sz = <<centipoints(Pt(para_data.font_size[1]))>>] ELSE run

with_name(run, para_data) ==
    IF dict_has(para_data, "font_name")
    THEN [run EXCEPT !.latin = para_data.font_name] ELSE run

with_bold(run, para_data) ==
    IF dict_has(para_data, "bold") THEN [run EXCEPT !.b = para_data.bold] ELSE run

with_italic(run, para_data) ==
    IF dict_has(para_data, "italic") THEN [run EXCEPT !.i = para_data.italic] ELSE run

\* with_underline, the underline left as it is.
with_underline_kept(run, para_data) == run

with_underline(run, para_data) ==
    IF dict_has(para_data, "underline")
    THEN [run EXCEPT !.u = para_data.underline] ELSE run

\* The size, name, bold, italic and underline of apply_font_properties.
font_attributes(run, para_data) ==
    with_underline(with_italic(with_bold(with_name(with_size(run, para_data),
        para_data), para_data), para_data), para_data)

\* The colour of apply_font_properties: the run, whether ValueError was
\* raised, and what was printed.
font_color(run, para_data, color_hex) ==
    IF dict_has(para_data, "color")
    THEN IF Len(color_hex) = 6
         THEN IF int16_raises(color_hex)
              THEN [raised |-> TRUE, run |-> run, printed |-> <<>>]
              ELSE [raised |-> FALSE, printed |-> <<>>,
                    run |-> [run EXCEPT !.solidFill = <<"srgbClr", color_hex>>]]
         ELSE [raised |-> FALSE, run |-> run, printed |-> <<>>]
    ELSE IF dict_has(para_data, "theme_color")
    THEN IF para_data.theme_color[1] \in ThemeColorNames
         THEN [raised |-> FALSE, printed |-> <<>>,
               run |-> [run EXCEPT !.solidFill =
                           <<"schemeClr", para_data.theme_color[1]>>]]
         ELSE [raised |-> FALSE, run |-> run,
               printed |-> << <<"Unknown theme color", para_data.theme_color[1]>> >>]
    ELSE [raised |-> FALSE, run |-> run, printed |-> <<>>]

apply_font_properties(run, para_data) ==
    font_color(font_attributes(run, para_data), para_data,
               lstrip_hash(dict_get(para_data, "color", <<>>)))

\* The bullet elements clear_paragraph_formatting removes from pPr.
ClearedTags == {"buChar", "buNone", "buAutoNum", "buFont", "buSzPct", "buSzPts"}

\* The elements of pPr that are left.
RECURSIVE without_cleared(_)
without_cleared(bu) ==
    IF bu = <<>> THEN <<>>
    ELSE (IF Head(bu) \in ClearedTags THEN <<>> ELSE <<Head(bu)>>)
         \o without_cleared(Tail(bu))

\* clear_paragraph_formatting removing nothing.
clear_paragraph_formatting_kept(paragraph) == paragraph

clear_paragraph_formatting(paragraph) ==
    [paragraph EXCEPT !.pPr.bu = without_cleared(@)]

\* int(x) for a rational x: the integer part, rounded towards zero.
int_of(x) == IF x[1] >= 0 THEN x[1] \div x[2] ELSE -((-x[1]) \div x[2])

\* The font size apply_paragraph_formatting computes the indents from when
\* the dictionary names none: 18.0 points.
DefaultFontSize == Rat(18, 1)

\* level_indent_emu, the level left out of the margin.
level_indent_emu_flat(font_size, level) ==
    int_of(RatMul(RatMul(font_size, Rat(16, 10)), Rat(EMUS_PER_PT, 1)))

\* int((font_size * (1.6 + level * 1.6)) * 12700)
level_indent_emu(font_size, level) ==
    int_of(RatMul(RatMul(font_size, RatAdd(Rat(16, 10), Rat(level * 16, 10))),
                  Rat(EMUS_PER_PT, 1)))

\* int(-font_size * 0.8 * 12700)
hanging_indent_emu(font_size) ==
    int_of(RatMul(RatMul(RatSub(Zero, font_size), Rat(8, 10)), Rat(EMUS_PER_PT, 1)))

\* The bullet part adding no buNone to a paragraph that is no bullet.
bullet_formatting_unmarked(paragraph, para_data, level, font_size) ==
    IF dict_get(para_data, "bullet", FALSE)
    THEN [paragraph EXCEPT
            !.pPr.lvl = IF level = 0 THEN <<>> ELSE <<level>>,
            !.pPr.marL = <<level_indent_emu(font_size, level)>>,
            !.pPr.indent = <<hanging_indent_emu(font_size)>>,
            !.pPr.bu = Append(@, "buChar"),
            !.pPr.algn = IF dict_has(para_data, "alignment")
                         THEN @ ELSE <<"LEFT">>]
    ELSE [paragraph EXCEPT !.pPr.marL = <<0>>, !.pPr.indent = <<0>>]

\* The bullet part of apply_paragraph_formatting.
bullet_formatting(paragraph, para_data, level, font_size) ==
    IF dict_get(para_data, "bullet", FALSE)
    THEN [paragraph EXCEPT
            !.pPr.lvl = IF level = 0 THEN <<>> ELSE <<level>>,
            !.pPr.marL = <<level_indent_emu(font_size, level)>>,
            !.pPr.indent = <<hanging_indent_emu(font_size)>>,
            !.pPr.bu = Append(@, "buChar"),
            !.pPr.algn = IF dict_has(para_data, "alignment")
                         THEN @ ELSE <<"LEFT">>]
    ELSE [paragraph EXCEPT
            !.pPr.marL = <<0>>, !.pPr.indent = <<0>>,
            !.pPr.bu = Append(@, "buNone")]

\* The alignment part.
alignment_formatting(paragraph, para_data) ==
    IF dict_has(para_data, "alignment")
       /\ para_data.alignment[1] \in AlignmentNames
    THEN [paragraph EXCEPT !.pPr.algn = para_data.alignment]
    ELSE paragraph

\* The first run of the paragraph, or the run add_run() adds.
first_run(paragraph) ==
    IF paragraph.runs # <<>> THEN paragraph.runs[1]
    ELSE Run(<<>>, <<>>, <<>>, <<>>, <<>>, <<>>)

\* The paragraph with its first run set.
with_first_run(paragraph, run) ==
    [paragraph EXCEPT !.runs = IF @ # <<>> THEN [@ EXCEPT ![1] = run] ELSE <<run>>]

\* The text set on the run and the font properties applied.
run_formatting(paragraph, para_data, text) ==
    LET fonted == apply_font_properties([first_run(paragraph) EXCEPT !.text = text],
                                        para_data)
    IN [raised |-> fonted.raised, printed |-> fonted.printed,
        paragraph |-> with_first_run(paragraph, fonted.run)]

apply_paragraph_formatting(paragraph, para_data) ==
    run_formatting(
        alignment_formatting(
            bullet_formatting(clear_paragraph_formatting(paragraph), para_data,
                              dict_get(para_data, "level", 0),
                              dict_get(para_data, "font_size", DefaultFontSize)),
            para_data),
        para_data, replace_vt(dict_text(para_data)))

---------------------------------------------------------------------------
(* apply_content.py: the replacements applied to the shapes. *)

\* The shape at a path of a shape collection, and the collection with the
\* shape at the path replaced: a reference to a shape, read and written.
RECURSIVE shape_at(_, _)
shape_at(shps, path) ==
    IF Len(path) = 1 THEN shps[path[1]]
    ELSE shape_at(shps[path[1]].shapes, Tail(path))

RECURSIVE with_shape(_, _, _)
with_shape(shps, path, shape) ==
    IF Len(path) = 1 THEN [shps EXCEPT ![path[1]] = shape]
    ELSE [shps EXCEPT ![path[1]].shapes = with_shape(@, Tail(path), shape)]

\* The width apply_shape_text takes for a shape that has none: 10.0 inches.
DefaultShapeWidth == Rat(10, 1)

\* para_data.copy() with para_data["font_size"] = font_size
with_font_size(para_data, font_size) ==
    [key \in DOMAIN para_data \cup {"font_size"} |->
        IF key = "font_size" THEN <<font_size>> ELSE para_data[key]]

\* The overflow check applying the size calculate_optimal_font_size returns
\* whenever it differs from the original one.
auto_adjust_unguarded(para_data, i, shape_width_inches, slide_key, shape_key, auto_shrink) ==
    LET text == dict_text(para_data)
        original_font_size == dict_get(para_data, "font_size", DefaultFontSize)
        optimal_font_size ==
            calculate_optimal_font_size(text, shape_width_inches,
                                        original_font_size, DefaultMinFontSize)
    IN IF auto_shrink /\ text # <<>>
       THEN IF optimal_font_size # original_font_size
            THEN [para_data |-> with_font_size(para_data, optimal_font_size),
                  warnings |-> << <<"Auto-shrink", slide_key, shape_key, i>> >>]
            ELSE [para_data |-> para_data,
                  warnings |-> check_overflow_warning(text, shape_width_inches,
                                   original_font_size, slide_key, shape_key)]
       ELSE [para_data |-> para_data, warnings |-> <<>>]

\* The overflow check of apply_shape_text for paragraph i: the dictionary
\* that is applied and the warnings appended.
auto_adjust(para_data, i, shape_width_inches, slide_key, shape_key, auto_shrink) ==
    LET text == dict_text(para_data)
        original_font_size == dict_get(para_data, "font_size", DefaultFontSize)
        optimal_font_size ==
            calculate_optimal_font_size(text, shape_width_inches,
                                        original_font_size, DefaultMinFontSize)
    IN IF auto_shrink /\ text # <<>>
       THEN IF RatLt(optimal_font_size, original_font_size)
            THEN [para_data |-> with_font_size(para_data, optimal_font_size),
                  warnings |-> << <<"Auto-shrink", slide_key, shape_key, i>> >>]
            ELSE [para_data |-> para_data,
                  warnings |-> check_overflow_warning(text, shape_width_inches,
                                   original_font_size, slide_key, shape_key)]
       ELSE [para_data |-> para_data, warnings |-> <<>>]

\* The loop of apply_shape_text from paragraphs[i] on (i counts from 0);
\* acc holds the paragraphs added, the warnings and what was printed.
RECURSIVE add_paragraphs(_, _, _, _, _, _, _)
add_paragraphs(acc, paragraphs, i, shape_width_inches, slide_key, shape_key, auto_shrink) ==
    IF i >= Len(paragraphs) THEN acc
    ELSE LET adjusted == auto_adjust(paragraphs[i + 1], i, shape_width_inches,
                                     slide_key, shape_key, auto_shrink)
             formatted == apply_paragraph_formatting(EmptyParagraph, adjusted.para_data)
             next == [raised |-> formatted.raised,
                      paragraphs |-> Append(acc.paragraphs, formatted.paragraph),
                      warnings |-> acc.warnings \o adjusted.warnings,
                      printed |-> acc.printed \o formatted.printed]
         IN IF formatted.raised THEN next
            ELSE add_paragraphs(next, paragraphs, i + 1, shape_width_inches,
                                slide_key, shape_key, auto_shrink)

\* apply_shape_text: the paragraphs of the shape are removed, then one
\* paragraph is added for each dictionary.
apply_shape_text(shape, paragraphs, slide_key, shape_key, auto_shrink) ==
    LET shape_width_inches ==
            IF shape.width # 0 THEN emu_to_inches(shape.width) ELSE DefaultShapeWidth
        added == add_paragraphs([raised |-> FALSE, paragraphs |-> <<>>,
                                 warnings |-> <<>>, printed |-> <<>>],
                                paragraphs, 0, shape_width_inches,
                                slide_key, shape_key, auto_shrink)
    IN [raised |-> added.raised, warnings |-> added.warnings,
        printed |-> added.printed,
        shape |-> [shape EXCEPT !.paragraphs = added.paragraphs]]

\* A key "slide-N" or "shape-N" is the pair of its prefix and N; a key
\* whose part after the "-" is no number ("shape-", "shape--1", "shape-x")
\* is the prefix alone or has a negative second part.
\* key.startswith(prefix + "-")
starts_with(key, prefix) == key # <<>> /\ key[1] = prefix

\* int(key.split("-")[1]): the index, or None when ValueError is raised.
key_index(key) == IF Len(key) >= 2 /\ key[2] >= 0 THEN <<key[2]>> ELSE <<>>

\* The state of a run of apply_replacements (the presentation, the
\* counters, what was printed, whether an exception has left the function)
\* after apply_shape_text has returned or raised for the shape at path.
shape_applied(st, slide_idx, path, applied) ==
    IF applied.raised
    THEN [st EXCEPT !.raised = TRUE]
    ELSE [st EXCEPT
            !.prs[slide_idx + 1] = with_shape(@, path, applied.shape),
            !.all_warnings = @ \o applied.warnings,
            !.printed = @ \o applied.printed,
            !.modified_count = @ + 1]

\* The body of the inner loop with the shape list taken from the slide as
\* the entries before this one left it.
apply_shape_entry_relisted(st, slide_idx, slide_key, shps, shape_key, shape_data, shape_idx, auto_shrink) ==
    IF ~starts_with(shape_key, "shape") THEN st
    ELSE IF shape_idx = <<>>
    THEN [st EXCEPT !.printed = Append(@, <<"Invalid shape key", shape_key>>)]
    ELSE IF shape_idx[1] >= Len(extract_shapes_from_slide(st.prs[slide_idx + 1]))
    THEN [st EXCEPT !.printed =
            Append(@, <<"Shape index out of range", shape_idx[1], slide_key>>)]
    ELSE IF "paragraphs" \in DOMAIN shape_data
    THEN shape_applied(st, slide_idx,
            extract_shapes_from_slide(st.prs[slide_idx + 1])[shape_idx[1] + 1],
            apply_shape_text(shape_at(st.prs[slide_idx + 1],
                                 extract_shapes_from_slide(st.prs[slide_idx + 1])[shape_idx[1] + 1]),
                             shape_data.paragraphs, slide_key, shape_key,
                             auto_shrink))
    ELSE st

\* The body of the inner loop of apply_replacements, for one entry of
\* shapes_data.
apply_shape_entry(st, slide_idx, slide_key, shps, shape_key, shape_data, shape_idx, auto_shrink) ==
    IF ~starts_with(shape_key, "shape") THEN st
    ELSE IF shape_idx = <<>>
    THEN [st EXCEPT !.printed = Append(@, <<"Invalid shape key", shape_key>>)]
    ELSE IF shape_idx[1] >= Len(shps)
    THEN [st EXCEPT !.printed =
            Append(@, <<"Shape index out of range", shape_idx[1], slide_key>>)]
    ELSE IF "paragraphs" \in DOMAIN shape_data
    THEN shape_applied(st, slide_idx, shps[shape_idx[1] + 1],
            apply_shape_text(shape_at(st.prs[slide_idx + 1], shps[shape_idx[1] + 1]),
                             shape_data.paragraphs, slide_key, shape_key,
                             auto_shrink))
    ELSE st

\* The inner loop of apply_replacements over the entries of shapes_data.
RECURSIVE apply_shapes_data(_, _, _, _, _, _)
apply_shapes_data(st, slide_idx, slide_key, shps, shapes_data, auto_shrink) ==
    IF shapes_data = <<>> \/ st.raised THEN st
    ELSE apply_shapes_data(
            apply_shape_entry(st, slide_idx, slide_key, shps,
                              Head(shapes_data)[1], Head(shapes_data)[2],
                              key_index(Head(shapes_data)[1]), auto_shrink),
            slide_idx, slide_key, shps, Tail(shapes_data), auto_shrink)

\* A value of the replacements file that is no dictionary and has no
\* length (null, a number): calling items() or len() on it raises.
NullValue == << <<"null">> >>

\* The body of the outer loop, for one entry of replacements.
\* The body of the outer loop raising for a slide index out of range.
apply_slide_entry_strict(st, slide_key, shapes_data, slide_idx, auto_shrink) ==
    IF starts_with(slide_key, "slide") /\ slide_idx # <<>>
       /\ slide_idx[1] >= Len(st.prs)
    THEN [st EXCEPT !.raised = TRUE]
    ELSE apply_shapes_data(st, slide_idx[1], slide_key,
             extract_shapes_from_slide(st.prs[slide_idx[1] + 1]),
             shapes_data, auto_shrink)

apply_slide_entry(st, slide_key, shapes_data, slide_idx, auto_shrink) ==
    IF ~starts_with(slide_key, "slide") THEN st
    ELSE IF slide_idx = <<>>
    THEN [st EXCEPT !.printed = Append(@, <<"Invalid slide key", slide_key>>)]
    ELSE IF slide_idx[1] >= Len(st.prs)
    THEN [st EXCEPT !.printed =
            Append(@, <<"Slide index out of range", slide_idx[1]>>)]
    ELSE IF shapes_data = NullValue
    THEN [st EXCEPT !.raised = TRUE]
    ELSE apply_shapes_data(st, slide_idx[1], slide_key,
             extract_shapes_from_slide(st.prs[slide_idx[1] + 1]),
             shapes_data, auto_shrink)

\* The outer loop of apply_replacements over the entries of replacements.
RECURSIVE apply_slides_data(_, _, _)
apply_slides_data(st, replacements, auto_shrink) ==
    IF replacements = <<>> \/ st.raised THEN st
    ELSE apply_slides_data(
            apply_slide_entry(st, Head(replacements)[1], Head(replacements)[2],
                              key_index(Head(replacements)[1]), auto_shrink),
            Tail(replacements), auto_shrink)

\* apply_replacements: a dictionary is the sequence of its entries
\* <<key, value>>, in the order of the file.
apply_replacements(prs, replacements, auto_shrink) ==
    apply_slides_data([prs |-> prs, modified_count |-> 0, all_warnings |-> <<>>,
                       printed |-> <<>>, raised |-> FALSE],
                      replacements, auto_shrink)

\* set(list): the elements of a list of indices.
index_set(list) == {list[k] : k \in 1..Len(list)}

\* The greatest index of a set that is not empty: the head of
\* sorted(slides_to_delete, reverse=True).
greatest(indices) == CHOOSE m \in indices : \A k \in indices : k <= m

\* The slide list <p:sldIdLst> without the entry of slide slide_idx.
drop_slide_kept_at_end(prs, slide_idx) ==
    [k \in 1..(Len(prs) - 1) |-> prs[k]]

drop_slide(prs, slide_idx) ==
    [k \in 1..(Len(prs) - 1) |-> IF k <= slide_idx THEN prs[k] ELSE prs[k + 1]]

\* The loop of delete_slides over sorted(slides_to_delete, reverse=True).
\* Every slide of the list has a relationship in the presentation part, so
\* the rId is found and nothing raises.
RECURSIVE delete_descending(_, _, _, _)
delete_descending(prs, slides_to_delete, deleted_count, out) ==
    IF slides_to_delete = {}
    THEN [prs |-> prs, deleted_count |-> deleted_count, printed |-> out]
    ELSE delete_descending(drop_slide(prs, greatest(slides_to_delete)),
                           slides_to_delete \ {greatest(slides_to_delete)},
                           deleted_count + 1, out)

\* The indices delete_slides is to delete, before they are validated.
requested_deletions(total_slides, data) ==
    IF dict_has(data, "slides_to_keep")
    THEN (0..(total_slides - 1)) \ index_set(data.slides_to_keep[1])
    ELSE index_set(data.slides_to_delete[1])

\* delete_slides once the mode is known: the validation of the indices and
\* the deletion.
delete_requested(prs, slides_to_delete, out) ==
    delete_descending(prs, slides_to_delete \cap (0..(Len(prs) - 1)), 0,
        IF slides_to_delete \subseteq 0..(Len(prs) - 1) THEN out
        ELSE Append(out, <<"Skipping invalid slide indices",
                           slides_to_delete \ (0..(Len(prs) - 1))>>))

\* delete_slides: the presentation it leaves, the count it returns and what
\* it prints.
delete_slides(prs, data) ==
    IF dict_has(data, "slides_to_keep")
    THEN delete_requested(prs, requested_deletions(Len(prs), data), << <<"Mode: Keep">> >>)
    ELSE IF dict_has(data, "slides_to_delete")
    THEN delete_requested(prs, requested_deletions(Len(prs), data), << <<"Mode: Delete">> >>)
    ELSE [prs |-> prs, deleted_count |-> 0, printed |-> <<>>]

\* The entries of data main passes on: those whose key starts with "slide-".
RECURSIVE slide_entries(_)
slide_entries(entries) ==
    IF entries = <<>> THEN <<>>
    ELSE (IF starts_with(Head(entries)[1], "slide") THEN <<Head(entries)>> ELSE <<>>)
         \o slide_entries(Tail(entries))

\* data.pop(key, None): the value of the key, or None.
RECURSIVE pop(_, _)
pop(entries, key) ==
    IF entries = <<>> THEN <<>>
    ELSE IF Head(entries)[1] = <<key>> THEN <<Head(entries)[2]>>
    ELSE pop(Tail(entries), key)

\* The slide add_summary_slide builds from the layout: the title and the
\* body placeholder, one paragraph of 18pt for each item.
summary_paragraphs(items) ==
    [k \in 1..Len(items) |->
        Paragraph(<<[Run(items[k], <<1800>>, <<>>, <<>>, <<>>, <<>>)
                        EXCEPT !.solidFill = <<"summary">>]>>,
                  <<>>, <<>>, <<>>, <<>>, <<>>)]

summary_slide(title, items) ==
    <<Node(1, 0, 0, 9 * EMU_PER_INCH, EMU_PER_INCH,
           TRUE, <<PlainParagraph(title)>>, "TITLE", <<>>),
      Node(1, 0, 2 * EMU_PER_INCH, 9 * EMU_PER_INCH, 4 * EMU_PER_INCH,
           TRUE, summary_paragraphs(items), "BODY", <<>>)>>

\* The slide list with a slide added at the end and moved to
\* insert_position when 0 < insert_position < len(prs.slides).
insert_slide(prs, new_slide, insert_position) ==
    IF insert_position > 0 /\ insert_position < Len(prs) + 1
    THEN [k \in 1..(Len(prs) + 1) |->
            IF k <= insert_position THEN prs[k]
            ELSE IF k = insert_position + 1 THEN new_slide
            ELSE prs[k - 1]]
    ELSE Append(prs, new_slide)

\* add_summary_slide: the presentation it leaves.  The title defaults to
\* the Japanese word for agenda; the library calls succeed.
add_summary_slide(prs, summary_data, insert_position) ==
    IF dict_get(summary_data, "items", <<>>) = <<>> THEN prs
    ELSE insert_slide(prs,
             summary_slide(dict_get(summary_data, "title", <<"KATAKANA">>),
                           summary_data.items[1]),
             insert_position)

\* main, the part "Delete slides if specified".
main_delete(prs, slides_to_keep, slides_to_delete) ==
    IF slides_to_keep # <<>> \/ slides_to_delete # <<>>
    THEN delete_slides(prs, [slides_to_keep |-> slides_to_keep,
                             slides_to_delete |-> slides_to_delete])
    ELSE [prs |-> prs, deleted_count |-> 0, printed |-> <<>>]

\* main, the part "Add summary slide if requested".
main_summary(prs, add_summary, summary_data) ==
    IF add_summary = <<TRUE>> /\ summary_data # <<>>
    THEN add_summary_slide(prs, summary_data[1], 1)
    ELSE prs

\* sum(len(shapes) for shapes in replacements.values()) raises TypeError
\* when a value has no length.
RECURSIVE total_shapes_raises(_)
total_shapes_raises(replacements) ==
    IF replacements = <<>> THEN FALSE
    ELSE Head(replacements)[2] = NullValue \/ total_shapes_raises(Tail(replacements))

\* main from prs.save on: the file is written, then the totals are
\* printed; an exception there is caught by "except Exception" as well.
main_save(applied, deleted, final_prs, replacements) ==
    [exit_code |-> IF total_shapes_raises(replacements) THEN <<1>> ELSE <<0>>,
     output |-> <<final_prs>>,
     modified |-> applied.modified_count,
     warnings |-> applied.all_warnings,
     printed |-> applied.printed \o deleted.printed
                 \o (IF total_shapes_raises(replacements)
                     THEN << <<"Error processing presentation">> >>
                     ELSE <<>>)]

main_deleted(applied, deleted, entries) ==
    main_save(applied, deleted,
              main_summary(deleted.prs, pop(entries, "add_summary_slide"),
                           pop(entries, "summary_slide")),
              slide_entries(entries))

\* main of apply_content.py on an input file and a replacements file that
\* exist and load.  An exception of apply_replacements is caught by
\* "except Exception": the error is printed, the exit code is 1 and
\* prs.save is not reached.
main_after(applied, entries) ==
    IF applied.raised
    THEN [exit_code |-> <<1>>, output |-> <<>>, modified |-> 0,
          warnings |-> <<>>,
          printed |-> Append(applied.printed, <<"Error processing presentation">>)]
    ELSE main_deleted(applied,
                      main_delete(applied.prs, pop(entries, "slides_to_keep"),
                                  pop(entries, "slides_to_delete")),
                      entries)

\* main deleting the slides before it applies the replacements.
main_delete_first(prs, entries, no_shrink) ==
    LET deleted == main_delete(prs, pop(entries, "slides_to_keep"),
                               pop(entries, "slides_to_delete"))
        applied == apply_replacements(deleted.prs, slide_entries(entries), ~no_shrink)
    IN IF applied.raised THEN main_after(applied, entries)
       ELSE main_deleted(applied, [deleted EXCEPT !.prs = applied.prs], entries)

main(prs, entries, no_shrink) ==
    main_after(apply_replacements(prs, slide_entries(entries), ~no_shrink), entries)

\* A replacements file whose content is no JSON: json.load raises
\* JSONDecodeError.
NotJson == << << <<"not JSON">> >> >>

\* main from its start: the two files are looked for, the presentation and
\* the JSON are loaded.  A file is <<>> when it does not exist.
main_on_files(input, replacements_json, no_shrink) ==
    IF input = <<>>
    THEN [exit_code |-> <<1>>, output |-> <<>>, modified |-> 0, warnings |-> <<>>,
          printed |-> << <<"Error: Input file not found">> >>]
    ELSE IF replacements_json = <<>>
    THEN [exit_code |-> <<1>>, output |-> <<>>, modified |-> 0, warnings |-> <<>>,
          printed |-> << <<"Error: Replacements file not found">> >>]
    ELSE IF replacements_json = NotJson
    THEN [exit_code |-> <<1>>, output |-> <<>>, modified |-> 0, warnings |-> <<>>,
          printed |-> << <<"Error parsing JSON">> >>]
    ELSE main(input[1], replacements_json[1], no_shrink)

---------------------------------------------------------------------------
(* validate_content.py and validate_pptx.py: the ValidationResult and the  *)
(* exit code of main.  A finding is recorded by its type.                  *)

\* ValidationResult(): no findings.
ValidationResult == [errors |-> <<>>, warnings |-> <<>>, info |-> <<>>]

add_error(result, error_type) == [result EXCEPT !.errors = Append(@, error_type)]
add_warning(result, warn_type) == [result EXCEPT !.warnings = Append(@, warn_type)]
add_info(result, info_type) == [result EXCEPT !.info = Append(@, info_type)]

\* ValidationResult.status with errors and warnings looked at in the
\* other order.
status_warnings_first(result) ==
    IF result.warnings # <<>> THEN "WARN"
    ELSE IF result.errors # <<>> THEN "FAIL"
    ELSE "PASS"

\* ValidationResult.status
status(result) ==
    IF result.errors # <<>> THEN "FAIL"
    ELSE IF result.warnings # <<>> THEN "WARN"
    ELSE "PASS"

\* The exit code of main of validate_content.py.
validate_content_exit(result, args_strict) ==
    IF result.errors # <<>> THEN 1
    ELSE IF result.warnings # <<>> /\ args_strict THEN 1
    ELSE IF result.warnings # <<>> THEN 2
    ELSE 0

\* The exit code of main of validate_pptx.py.
validate_pptx_exit(result) ==
    IF status(result) = "FAIL" THEN 1
    ELSE IF status(result) = "WARN" THEN 2
    ELSE 0

---------------------------------------------------------------------------
(* reorder_slides.py.  The slide list of a presentation is a sequence of   *)
(* slides [id, shapes]; indices count from 0.                              *)

\* The id add_slide gives a new slide: one more than the greatest id.
RECURSIVE greatest_id(_)
greatest_id(prs) ==
    IF prs = <<>> THEN 255
    ELSE IF Head(prs).id > greatest_id(Tail(prs)) THEN Head(prs).id
    ELSE greatest_id(Tail(prs))

\* duplicate_slide: a new slide at the end with copies of the shapes.
duplicate_slide(prs, source_index) ==
    Append(prs, [id |-> greatest_id(prs) + 1, shapes |-> prs[source_index + 1].shapes])

\* delete_slide deleting the slide after the one it is given.
delete_slide_next(prs, index) ==
    [k \in 1..(Len(prs) - 1) |-> IF k <= index + 1 THEN prs[k] ELSE prs[k + 1]]

\* delete_slide: del prs.slides._sldIdLst[index]
delete_slide(prs, index) ==
    [k \in 1..(Len(prs) - 1) |-> IF k <= index THEN prs[k] ELSE prs[k + 1]]

\* move_slide: the element is removed and inserted at to_index.
move_slide(prs, from_index, to_index) ==
    [k \in 1..Len(prs) |->
        IF k = to_index + 1 THEN prs[from_index + 1]
        ELSE IF k <= to_index
        THEN delete_slide(prs, from_index)[k]
        ELSE delete_slide(prs, from_index)[k - 1]]

\* validate_slide_indices raises ValueError.
indices_invalid(indices, total_slides) ==
    \E k \in 1..Len(indices) : indices[k] < 0 \/ indices[k] >= total_slides

\* slide_sequence.count(template_idx)
count_of(slide_sequence, template_idx) ==
    Cardinality({k \in 1..Len(slide_sequence) : slide_sequence[k] = template_idx})

\* The inner loop of phase 1: n duplicates of the slide are created and
\* their indices collected.
RECURSIVE create_duplicates(_, _, _)
create_duplicates(st, template_idx, n) ==
    IF n = 0 THEN st
    ELSE create_duplicates(
            [st EXCEPT !.prs = duplicate_slide(@, template_idx),
                       !.duplicated[template_idx] = <<Append(@[1], Len(st.prs))>>],
            template_idx, n - 1)

\* The body of the loop of phase 1.  duplicated[template_idx] is the empty
\* sequence while the dictionary has no such key, else <<list>>.
phase1_step(st, template_idx, count) ==
    IF st.duplicated[template_idx] # <<>> /\ st.duplicated[template_idx][1] # <<>>
    THEN [st EXCEPT !.slide_map = Append(@, st.duplicated[template_idx][1][1]),
                    !.duplicated[template_idx] = <<Tail(@[1])>>]
    ELSE IF count > 1 /\ st.duplicated[template_idx] = <<>>
    THEN create_duplicates(
            [st EXCEPT !.slide_map = Append(@, template_idx),
                       !.duplicated[template_idx] = << <<>> >>],
            template_idx, count - 1)
    ELSE [st EXCEPT !.slide_map = Append(@, template_idx)]

\* Phase 1: create duplicates for repeated slides.
RECURSIVE phase1(_, _, _)
phase1(st, slide_sequence, i) ==
    IF i >= Len(slide_sequence) THEN st
    ELSE phase1(phase1_step(st, slide_sequence[i + 1],
                            count_of(slide_sequence, slide_sequence[i + 1])),
                slide_sequence, i + 1)

\* slide_map = [idx - 1 if idx > i else idx for idx in slide_map]
map_after_delete(slide_map, i) ==
    [k \in 1..Len(slide_map) |->
        IF slide_map[k] > i THEN slide_map[k] - 1 ELSE slide_map[k]]

\* Phase 2: delete unused slides, from the last index down to 0.
RECURSIVE phase2(_, _, _)
phase2(st, slides_to_keep, i) ==
    IF i < 0 THEN st
    ELSE IF i \notin slides_to_keep
    THEN phase2([st EXCEPT !.prs = delete_slide(@, i),
                           !.slide_map = map_after_delete(@, i)],
                slides_to_keep, i - 1)
    ELSE phase2(st, slides_to_keep, i - 1)

\* The update of slide_map after the move of phase 3.
map_after_move(slide_map, current_pos, target_pos) ==
    [k \in 1..Len(slide_map) |->
        IF k = target_pos + 1 THEN target_pos
        ELSE IF slide_map[k] > current_pos /\ slide_map[k] <= target_pos
        THEN slide_map[k] - 1
        ELSE IF slide_map[k] < current_pos /\ slide_map[k] >= target_pos
        THEN slide_map[k] + 1
        ELSE slide_map[k]]

\* Phase 3: reorder slides to the final sequence.
RECURSIVE phase3(_, _)
phase3(st, target_pos) ==
    IF target_pos >= Len(st.slide_map) THEN st
    ELSE IF st.slide_map[target_pos + 1] # target_pos
    THEN phase3([st EXCEPT
                    !.prs = move_slide(@, st.slide_map[target_pos + 1], target_pos),
                    !.slide_map = map_after_move(@, st.slide_map[target_pos + 1],
                                                 target_pos)],
                target_pos + 1)
    ELSE phase3(st, target_pos + 1)

\* The three phases from the state phase 1 leaves.
phases_after(st) ==
    phase3(phase2(st, index_set(st.slide_map), Len(st.prs) - 1), 0)

\* rearrange_presentation: the template is copied to the output path; an
\* index out of range raises ValueError, which main answers with exit code
\* 1; else the rearranged presentation is saved over the copy.
rearrange_presentation(template, slide_sequence) ==
    IF indices_invalid(slide_sequence, Len(template))
    THEN [exit_code |-> 1, output |-> template]
    ELSE [exit_code |-> 0,
          output |-> phases_after(
              phase1([prs |-> template, slide_map |-> <<>>,
                      duplicated |-> [idx \in 0..(Len(template) - 1) |-> <<>>]],
                     slide_sequence, 0)).prs]

\* shutil.copy2(template_path, output_path), the two paths being different:
\* the file at the output path.
copy2(template) == <<template>>

\* prs.save(output_path): the file at the output path.
save(prs) == <<prs>>

\* main, the template found: the exit code, the presentation in memory and
\* the file at the output path when rearrange_presentation has returned or
\* raised (the copy is made before the indices are validated).
reorder_main(template, slide_sequence) ==
    [exit_code |-> rearrange_presentation(template, slide_sequence).exit_code,
     output |-> rearrange_presentation(template, slide_sequence).output,
     output_file |->
        IF indices_invalid(slide_sequence, Len(template))
        THEN copy2(template)
        ELSE save(rearrange_presentation(template, slide_sequence).output)]

---------------------------------------------------------------------------
---------------------------------------------------------------------------
(* merge_slides.py.  Both presentations are slide lists as above.          *)

\* The shapes of a source slide that are copied: placeholders are skipped.
copied_shapes(shps) == SelectSeq(shps, LAMBDA shape : shape.ph_type = "")

\* The --clear-template option: every slide of the template is removed.
clear_slides(template, clear_template) ==
    IF clear_template /\ Len(template) > 0 THEN <<>> ELSE template

\* The insertion index computed from --position.
insert_index_of(position, total_slides) ==
    IF position = -1 THEN total_slides
    ELSE IF position >= 0
    THEN (IF position < total_slides THEN position ELSE total_slides)
    ELSE total_slides

\* slides_part.insert(index, elem): an index beyond the end appends.
insert_elem(prs, index, elem) ==
    IF index >= Len(prs) THEN Append(prs, elem)
    ELSE [k \in 1..(Len(prs) + 1) |->
             IF k <= index THEN prs[k]
             ELSE IF k = index + 1 THEN elem
             ELSE prs[k - 1]]

\* The new slide moved to the insertion index itself, whatever was merged.
place_new_slide_at_index(prs, insert_index, merged_count) ==
    IF insert_index < Len(prs) - 1
    THEN insert_elem(SubSeq(prs, 1, Len(prs) - 1), insert_index, prs[Len(prs)])
    ELSE prs

\* The new slide, added at the end, is moved behind the slides merged so far.
place_new_slide(prs, insert_index, merged_count) ==
    IF insert_index < Len(prs) - 1
    THEN insert_elem(SubSeq(prs, 1, Len(prs) - 1), insert_index + merged_count,
                     prs[Len(prs)])
    ELSE prs

\* One pass of the loop over the source slides: add_slide, move, copy.
copy_slide(prs, source_slide, insert_index, merged_count) ==
    place_new_slide(
        Append(prs, [id |-> greatest_id(prs) + 1,
                     shapes |-> copied_shapes(source_slide.shapes)]),
        insert_index, merged_count)

\* The loop over the source slides, from the slide merged_count on.
RECURSIVE copy_slides(_, _, _, _)
copy_slides(prs, source, insert_index, merged_count) ==
    IF merged_count >= Len(source) THEN prs
    ELSE copy_slides(copy_slide(prs, source[merged_count + 1], insert_index,
                                merged_count),
                     source, insert_index, merged_count + 1)

\* merge_slides: the count it returns and, if it saved one, the output.  A
\* file that does not exist is the empty sequence, one that does is <<prs>>.
merge_slides(template_file, source_file, position, clear_template) ==
    IF template_file = <<>> \/ source_file = <<>>
    THEN [merged_count |-> 0, output |-> <<>>]
    ELSE [merged_count |-> Len(source_file[1]),
          output |->
              <<copy_slides(clear_slides(template_file[1], clear_template),
                            source_file[1],
                            insert_index_of(position,
                                Len(clear_slides(template_file[1], clear_template))),
                            0)>>]

\* main: the exit code.
merge_exit(count) == IF count > 0 THEN 0 ELSE 1

---------------------------------------------------------------------------
(* resume_workflow.py.  A trace entry is <<phase, status>>; the escalation *)
(* file is absent (the empty sequence) or <<status>>.                      *)

PHASES ==
    <<"INIT", "PLAN", "EXTRACT", "TRANSLATE", "REVIEW_JSON", "BUILD",
      "REVIEW_PPTX", "DONE">>

\* PHASES.index(from_phase), counted from 1.
phase_index(from_phase) == CHOOSE i \in 1..Len(PHASES) : PHASES[i] = from_phase

\* PHASES[start_idx:]
phases_from(from_phase) == SubSeq(PHASES, phase_index(from_phase), Len(PHASES))

\* WorkflowTracer.log, start_phase and end_phase: one entry each.
log(entries, phase, log_status) == Append(entries, <<phase, log_status>>)
start_phase(entries, phase) == log(entries, phase, "started")
end_phase(entries, phase, end_status) == log(entries, phase, end_status)

\* What run_phase returns and leaves.
PhaseResult(success, entries, escalation) ==
    [success |-> success, entries |-> entries, escalation |-> escalation]

\* run_phase, "TRANSLATE": the phase fails with or without content.json.
run_translate(entries, escalation) ==
    PhaseResult(FALSE, end_phase(start_phase(entries, "TRANSLATE"), "TRANSLATE", "failed"),
                escalation)

\* run_phase, "REVIEW_JSON": files is what find_files found, returncode the
\* exit code of validate_content.py.
run_review_json(files, skip_validation, entries, escalation) ==
    IF skip_validation
    THEN PhaseResult(TRUE, log(entries, "REVIEW_JSON", "warning"), escalation)
    ELSE IF ~files.content_ja
    THEN PhaseResult(FALSE,
             end_phase(start_phase(entries, "REVIEW_JSON"), "REVIEW_JSON", "failed"),
             escalation)
    ELSE IF files.validate_returncode = 1
    THEN PhaseResult(FALSE,
             end_phase(start_phase(entries, "REVIEW_JSON"), "REVIEW_JSON", "failed"),
             escalation)
    ELSE IF files.validate_returncode = 2
    THEN PhaseResult(TRUE,
             end_phase(start_phase(entries, "REVIEW_JSON"), "REVIEW_JSON", "warning"),
             escalation)
    ELSE PhaseResult(TRUE,
             end_phase(start_phase(entries, "REVIEW_JSON"), "REVIEW_JSON", "success"),
             escalation)

\* run_phase, "BUILD": template is the --template option being given,
\* input_pptx a .pptx file being in input/, build_returncode the exit code
\* of the build command.
run_build(files, entries, escalation) ==
    IF ~files.content_ja
    THEN PhaseResult(FALSE, end_phase(start_phase(entries, "BUILD"), "BUILD", "failed"),
                     escalation)
    ELSE IF ~files.template /\ ~files.input_pptx
    THEN PhaseResult(FALSE, end_phase(start_phase(entries, "BUILD"), "BUILD", "failed"),
                     escalation)
    ELSE IF files.build_returncode # 0
    THEN PhaseResult(FALSE, end_phase(start_phase(entries, "BUILD"), "BUILD", "failed"),
                     escalation)
    ELSE PhaseResult(TRUE, end_phase(start_phase(entries, "BUILD"), "BUILD", "success"),
                     escalation)

\* run_phase, "DONE": the escalation file, if there is one, is marked.
run_done(entries, escalation) ==
    PhaseResult(TRUE, log(entries, "DONE", "success"),
                IF escalation # <<>> THEN <<"resolved">> ELSE escalation)

\* run_phase
run_phase(phase, files, skip_validation, entries, escalation) ==
    IF phase = "TRANSLATE" THEN run_translate(entries, escalation)
    ELSE IF phase = "REVIEW_JSON"
    THEN run_review_json(files, skip_validation, entries, escalation)
    ELSE IF phase = "BUILD" THEN run_build(files, entries, escalation)
    ELSE IF phase = "DONE" THEN run_done(entries, escalation)
    ELSE PhaseResult(FALSE, entries, escalation)

\* The phases main passes over.
already_completed(phase) == phase \in {"INIT", "PLAN", "EXTRACT"}

---------------------------------------------------------------------------
(* insert_diagram_slides.py.  Both presentations are slide lists as above; *)
(* an insertion of the config is [source_index, target_position].          *)

\* One step of sorted(..., key = target_position, reverse = True): the
\* insertion is put behind those sorted whose target is not smaller, which
\* keeps insertions of equal targets in the order of the config.
insert_descending(sorted, ins) ==
    LET ahead == Cardinality({k \in 1..Len(sorted) :
                        sorted[k].target_position >= ins.target_position})
    IN SubSeq(sorted, 1, ahead) \o <<ins>> \o SubSeq(sorted, ahead + 1, Len(sorted))

\* sorted(config["insertions"], key=lambda x: x["target_position"], reverse=True)
RECURSIVE sorted_descending(_, _)
sorted_descending(sorted, insertions) ==
    IF insertions = <<>> THEN sorted
    ELSE sorted_descending(insert_descending(sorted, Head(insertions)),
                           Tail(insertions))

\* The slide add_slide has put at the end is moved to target_pos when that
\* is an index before it.
move_new_slide(prs, target_pos) ==
    IF target_pos < Len(prs) - 1
    THEN insert_elem(SubSeq(prs, 1, Len(prs) - 1), target_pos, prs[Len(prs)])
    ELSE prs

\* One pass of the loop: a source index out of range is skipped; else a
\* slide is added, moved, emptied and given copies of the source's shapes
\* (the two presentations have one slide size, so the scale is 1).
insert_one(prs, diagrams, ins) ==
    IF ins.source_index >= Len(diagrams) THEN prs
    ELSE move_new_slide(
             Append(prs, [id |-> greatest_id(prs) + 1,
                          shapes |-> diagrams[ins.source_index + 1].shapes]),
             ins.target_position)

\* The loop over the sorted insertions.
RECURSIVE insert_all(_, _, _)
insert_all(prs, diagrams, insertions) ==
    IF insertions = <<>> THEN prs
    ELSE insert_all(insert_one(prs, diagrams, Head(insertions)), diagrams,
                    Tail(insertions))

\* insert_diagram_slides: the presentation saved.
insert_diagram_slides(base, diagrams, insertions) ==
    insert_all(base, diagrams, sorted_descending(<<>>, insertions))

(* The slides the tools are run on. *)

\* A shape that is no group.
Leaf(l, t, w, h, content) ==
    Node(1, l, t, w, h, content[1], content[2], content[3], <<>>)

\* A group shape at (l, t) with the given children.
Group(l, t, children) == Node(GROUP, l, t, 0, 0, FALSE, <<>>, "", children)

\* The number of shapes of a collection, groups and their children counted.
RECURSIVE shape_count(_)
shape_count(shps) ==
    IF shps = <<>> THEN 0
    ELSE 1 + shape_count(Head(shps).shapes) + shape_count(Tail(shps))

\* The number of groups nested at the end of a collection: the last shape,
\* when it is a group, and the groups ending it.
RECURSIVE open_groups(_)
open_groups(shps) ==
    IF shps = <<>> \/ shps[Len(shps)].shape_type # GROUP THEN 0
    ELSE 1 + open_groups(shps[Len(shps)].shapes)

\* The collection with node added as the last child of the group d levels
\* down its last shapes (d = 0: of the collection itself).
RECURSIVE append_at(_, _, _)
append_at(shps, d, node) ==
    IF d = 0 THEN Append(shps, node)
    ELSE [shps EXCEPT ![Len(shps)].shapes = append_at(@, d - 1, node)]

HalfInch == EMU_PER_INCH \div 2

\* The contents of a shape: <<has_text_frame, paragraphs, ph_type>>.
NoTextFrame == <<FALSE, <<>>, "">>
TextFrame(paras, ph) == <<TRUE, paras, ph>>

BlankParagraphs == <<PlainParagraph(<<" ", "VT">>)>>
TextParagraphs == <<PlainParagraph(<<"a">>)>>
MixedParagraphs == <<EmptyParagraph, PlainParagraph(<<" ", "a", "VT", "b">>)>>

\* Slides for the walker's filter: every kind of content at one position.
FilterContents ==
    {NoTextFrame}
    \cup {TextFrame(p, ph) :
            p \in {BlankParagraphs, TextParagraphs, MixedParagraphs},
            ph \in {"", "TITLE", "BODY", "SLIDE_NUMBER", "FOOTER", "DATE"}}
FilterLeaves ==
    {Leaf(0, 0, EMU_PER_INCH, EMU_PER_INCH, c) : c \in FilterContents}
FilterNodes == FilterLeaves \cup {Group(HalfInch, HalfInch, <<>>)}

\* Slides for the visual sort: shapes on a grid of positions, kept and
\* skipped ones mixed.
SortContents ==
    {TextFrame(TextParagraphs, ""), TextFrame(BlankParagraphs, ""),
     TextFrame(TextParagraphs, "DATE")}
SortLeaves ==
    {Leaf(l, t, EMU_PER_INCH, EMU_PER_INCH, c) :
        l \in {0, HalfInch}, t \in {0, HalfInch}, c \in SortContents}
SortNodes == SortLeaves \cup {Group(HalfInch, HalfInch, <<>>)}

\* A title at top 0.5in and a group at (1in, 2in) holding two text boxes at
\* local (0, 0) and (0, 1in).
ScenarioSlide ==
    <<Leaf(0, HalfInch, EMU_PER_INCH, HalfInch, TextFrame(TextParagraphs, "TITLE")),
      Group(EMU_PER_INCH, 2 * EMU_PER_INCH,
            <<Leaf(0, 0, EMU_PER_INCH, HalfInch, TextFrame(TextParagraphs, "")),
              Leaf(0, EMU_PER_INCH, EMU_PER_INCH, HalfInch,
                   TextFrame(TextParagraphs, ""))>>)>>

\* Slides for the overlap detection: text boxes of several sizes.
OverlapLeaves ==
    {Leaf(l, t, w, EMU_PER_INCH, TextFrame(TextParagraphs, "")) :
        l \in {0, HalfInch}, t \in {0, HalfInch},
        w \in {HalfInch, EMU_PER_INCH}}
OverlapNodes == OverlapLeaves \cup {Group(HalfInch, 0, <<>>)}

---------------------------------------------------------------------------
(* The runs of the two tools on one slide. *)

InitTools ==
    /\ issues_only = FALSE
    /\ extracted = FALSE
    /\ detected = <<>>
    /\ shapes_with_positions = <<>>
    /\ inventory = <<>>
    /\ walked = FALSE
    /\ shapes = <<>>
    /\ json_data = <<>>
    /\ no_auto_shrink = FALSE
    /\ exit_code = <<>>
    /\ output = <<>>
    /\ modified = 0
    /\ warnings = <<>>
    /\ printed = <<>>
    /\ reextracted = <<>>

\* No call of calculate_optimal_font_size is looked at.
InitNoFont == font_args = <<>> /\ font_result = <<>>

\* No call of apply_paragraph_formatting is looked at.
InitNoParagraph == para_args = <<>> /\ para_result = <<>>

\* None of the functions and scripts run on their own is looked at.
\* No call of delete_slides is looked at.
InitNoDelete == delete_args = <<>> /\ delete_result = <<>>

\* The application tool is not run on a deck.
InitNoDeck == deck = <<>> /\ input_found = FALSE /\ replacements_file = <<>>

\* No validation script is run.
InitNoValidation ==
    validator = "" /\ strict = FALSE /\ validation = <<>> /\ validation_exit = <<>>

\* reorder_slides is not run.
InitNoRearrange == rearrange_args = <<>> /\ rearrange_result = <<>>

\* merge_slides is not run.
InitNoMerge == merge_args = <<>> /\ merge_result = <<>>

\* resume_workflow is not run.
InitNoWorkflow ==
    /\ workflow_args = <<>> /\ phases_to_run = <<>> /\ tracer_entries = <<>>
    /\ trace_file = <<>> /\ escalation_file = <<>> /\ workflow_exit = <<>>

\* insert_diagram_slides is not run.
InitNoDiagram == diagram_args = <<>> /\ diagram_result = <<>>

\* The scripts that work on the slide list alone, and the workflow script,
\* are not run.
InitNoSlideScripts ==
    InitNoRearrange /\ InitNoMerge /\ InitNoWorkflow /\ InitNoDiagram

InitNoScripts ==
    /\ InitNoParagraph /\ InitNoDelete /\ InitNoDeck /\ InitNoValidation
    /\ InitNoSlideScripts

\* extract_text_inventory on the slide.
ExtractTextInventory ==
    LET list   == detected_list(slide)
        sorted == sorted_list(list)
    IN \E flag \in BOOLEAN :
           /\ issues_only' = flag
           /\ extracted' = TRUE
           /\ detected' = list
           /\ shapes_with_positions' = sorted
           /\ inventory' = slide_inventory(sorted, flag)
           /\ UNCHANGED <<slide, walker_vars, application_vars, font_vars, script_vars>>

\* The application tool's extract_shapes_from_slide on the slide.
ExtractShapesFromSlide ==
    /\ walked' = TRUE
    /\ shapes' = extract_shapes_from_slide(slide)
    /\ UNCHANGED <<slide, extraction_vars, application_vars, font_vars, script_vars>>

\* The slide gets one more shape, one of nodes, before any tool is run:
\* at its end or at the end of one of the groups that end it.
AddShape(nodes, max) ==
    /\ ~extracted /\ ~walked /\ exit_code = <<>>
    /\ shape_count(slide) < max
    /\ \E node \in nodes, d \in 0..open_groups(slide) :
            slide' = append_at(slide, d, node)
    /\ UNCHANGED <<extraction_vars, walker_vars, application_vars, font_vars, script_vars>>

\* The inventory file of the slide as extract_text_inventory returns it:
\* the slide's entry is left out when no shape is listed.
RECURSIVE inventory_entries(_, _, _)
inventory_entries(slide_shapes, k, n) ==
    IF k >= n THEN <<>>
    ELSE (IF ShapeKey(k) \in DOMAIN slide_shapes
          THEN << <<ShapeKey(k), slide_shapes[ShapeKey(k)]>> >> ELSE <<>>)
         \o inventory_entries(slide_shapes, k + 1, n)

inventory_file(slide_shapes, n) ==
    IF DOMAIN slide_shapes = {} THEN <<>>
    ELSE << <<SlideKey(0), inventory_entries(slide_shapes, 0, n)>> >>

\* A run of apply_content.py on the input file, with one of the given
\* replacements files.
ApplyContent(files) ==
    /\ exit_code = <<>>
    /\ \E entries \in files, flag \in BOOLEAN :
        \E result \in {main(<<slide>>, entries, flag)} :
          /\ json_data' = entries
          /\ no_auto_shrink' = flag
          /\ exit_code' = result.exit_code
          /\ output' = result.output
          /\ modified' = result.modified
          /\ warnings' = result.warnings
          /\ printed' = result.printed
    /\ UNCHANGED <<slide, extraction_vars, walker_vars, reextracted, font_vars, script_vars>>

\* The inventory returned by extract_text_inventory, run without
\* --issues-only on the output file of the application tool.
ExtractOutput ==
    /\ output # <<>>
    /\ reextracted = <<>>
    /\ reextracted' =
          <<slide_inventory(sorted_list(detected_list(output[1][1])), FALSE)>>
    /\ UNCHANGED <<slide, extraction_vars, walker_vars, json_data, no_auto_shrink,
                   exit_code, output, modified, warnings, printed, font_vars, script_vars>>

NextTools == ExtractTextInventory \/ ExtractShapesFromSlide

InitFilter == slide = <<>> /\ InitTools /\ InitNoFont /\ InitNoScripts
NextFilter == AddShape(FilterNodes, MaxFilterShapes) \/ NextTools
SpecFilter == InitFilter /\ [][NextFilter]_vars

InitSort == slide \in {<<>>, ScenarioSlide} /\ InitTools /\ InitNoFont /\ InitNoScripts
NextSort == AddShape(SortNodes, MaxShapes) \/ NextTools
SpecSort == InitSort /\ [][NextSort]_vars

InitOverlap == slide = <<>> /\ InitTools /\ InitNoFont /\ InitNoScripts
NextOverlap == AddShape(OverlapNodes, MaxShapes) \/ NextTools
SpecOverlap == InitOverlap /\ [][NextOverlap]_vars

---------------------------------------------------------------------------
(* calculate_optimal_font_size called on its own. *)

\* The text of n characters c.
RECURSIVE Repeat(_, _)
Repeat(c, n) == IF n = 0 THEN <<>> ELSE <<c>> \o Repeat(c, n - 1)

Narrow(n) == Repeat("1", n)
Wide(n) == Repeat("KANJI", n)

FontTexts ==
    {<<>>, Narrow(1), Narrow(LongLine), Wide(LongLine \div 2),
     Narrow(2) \o <<"LF">> \o Wide(2), Wide(2) \o <<"LF">> \o Narrow(2),
     Narrow(LongLine) \o <<"LF">> \o Narrow(1)}

\* Widths in inches and font sizes in points.
FontWidths == {Rat(1, 2), Rat(1, 1), Rat(4, 1), DefaultShapeWidth}
FontSizes == {Rat(8, 1), Rat(10, 1), DefaultMinFontSize, DefaultFontSize, Rat(24, 1)}
MinFontSizes == {Rat(8, 1), DefaultMinFontSize, DefaultFontSize}

FontArgs ==
    [text : FontTexts, shape_width_inches : FontWidths,
     original_font_size : FontSizes, min_font_size : MinFontSizes]

CalculateOptimalFontSize ==
    /\ font_result = <<>>
    /\ font_result' =
          <<calculate_optimal_font_size(font_args.text, font_args.shape_width_inches,
                font_args.original_font_size, font_args.min_font_size)>>
    /\ UNCHANGED <<slide, extraction_vars, walker_vars, application_vars, font_args, script_vars>>

InitFont ==
    /\ slide = <<>> /\ InitTools /\ InitNoScripts
    /\ font_args \in FontArgs
    /\ font_result = <<>>
NextFont == CalculateOptimalFontSize
SpecFont == InitFont /\ [][NextFont]_vars

---------------------------------------------------------------------------
(* The round trip: the inventory of a slide applied back to the slide and  *)
(* the output extracted again.                                             *)

RoundTripTexts == {<<"a">>, <<" ", "a", "VT", "b">>, Narrow(LongLine)}

\* The fonts of a first run: sizes of 8.2, 10, 18 and 24 points or none,
\* and name, bold, italic and underline unset or set.
RoundTripFonts ==
    {<< <<>>, <<>>, <<>>, <<>> >>,
     << <<"Arial">>, <<TRUE>>, <<TRUE>>, <<FALSE>> >>,
     << <<>>, <<FALSE>>, <<FALSE>>, <<TRUE>> >>}

RoundTripRuns ==
    {Run(text, sz, font[1], font[2], font[3], font[4]) :
        text \in RoundTripTexts,
        sz \in {<<>>, <<820>>, <<1000>>, <<1800>>, <<2400>>},
        font \in RoundTripFonts}

RoundTripParagraphs ==
    {Paragraph(<<run>>, bu, <<>>, <<>>, lvl, algn) :
        run \in RoundTripRuns,
        bu \in {<<>>, <<"buChar">>, <<"buAutoNum">>, <<"buNone">>},
        lvl \in {<<>>, <<1>>},
        algn \in {<<>>, <<"CENTER">>, <<"DISTRIBUTE">>}}

\* A text frame of one paragraph, or of an empty paragraph, a paragraph of
\* two runs and a plain one.
RoundTripFrames ==
    {<<paragraph>> : paragraph \in RoundTripParagraphs}
    \cup {<<EmptyParagraph,
            [paragraph EXCEPT !.runs = Append(@, Run(<<"b", " ">>, <<2400>>, <<>>, <<>>, <<>>, <<>>))],
            PlainParagraph(<<"c">>)>> :
          paragraph \in {q \in RoundTripParagraphs :
                            q.runs[1].b = <<>> /\ q.pPr.lvl = <<>>}}

RoundTripSlides ==
    {<<Leaf(0, 0, w, EMU_PER_INCH, TextFrame(frame, ""))>> :
        w \in {0, EMU_PER_INCH, 2 * EMU_PER_INCH}, frame \in RoundTripFrames}

\* The inventory file extracted, when there is one.
ExtractedFiles ==
    IF extracted
    THEN {inventory_file(inventory, Len(shapes_with_positions))} ELSE {}

InitRoundTrip == slide \in RoundTripSlides /\ InitTools /\ InitNoFont /\ InitNoScripts
NextRoundTrip == ExtractTextInventory \/ ApplyContent(ExtractedFiles) \/ ExtractOutput
SpecRoundTrip == InitRoundTrip /\ [][NextRoundTrip]_vars

---------------------------------------------------------------------------
(* Replacements files written by hand, applied to slides of text boxes. *)

ApplyLeaves ==
    {Leaf(0, t, w, EMU_PER_INCH, TextFrame(TextParagraphs, "")) :
        t \in {0, HalfInch}, w \in {0, EMU_PER_INCH}}
ApplyNodes == ApplyLeaves \cup {Group(HalfInch, 0, <<>>)}

\* Paragraph dictionaries: a short text; a long line at the default size,
\* at 10 points and, of 12 characters, at 12 points; colours that are and
\* are not hexadecimal; a theme colour that does not exist; a bullet.
ShortText == [text |-> <<"a">>]
LongText == [text |-> Narrow(LongLine)]
LongSmallText == [text |-> Narrow(LongLine), font_size |-> <<Rat(10, 1)>>]
MarginText == [text |-> Narrow(12), font_size |-> <<DefaultMinFontSize>>]
BadColor == [text |-> <<"a">>, color |-> << <<"Z", "Z", "Z", "Z", "Z", "Z">> >>]
GoodColor == [text |-> <<"a">>, color |-> << <<"#", "F", "F", "0", "0", "0", "0">> >>]
BadTheme == [text |-> <<"a", "VT", "b">>, theme_color |-> <<"NOPE">>]
BulletText ==
    [text |-> <<"a">>, bullet |-> <<TRUE>>, level |-> <<1>>,
     font_size |-> <<Rat(24, 1)>>]

WrittenParagraphs ==
    {<<ShortText>>, <<LongText>>, <<LongSmallText>>, <<MarginText>>, <<BadColor>>,
     <<GoodColor>>, <<BadTheme>>, <<BulletText>>, <<LongText, ShortText>>, <<>>}

\* Shape keys: "shape-0", "shape-1", "shape-7", "shape-" and "title".
WrittenShapeKeys == {ShapeKey(0), ShapeKey(1), ShapeKey(7), <<"shape">>, <<"title">>}

WrittenEntries ==
    {<<key, [paragraphs |-> paragraphs]>> :
        key \in WrittenShapeKeys, paragraphs \in WrittenParagraphs}
    \cup {<<ShapeKey(0), [placeholder_type |-> ""]>>}

\* What may follow the first entry of a slide.
SecondEntries ==
    {<<ShapeKey(1), [paragraphs |-> <<ShortText>>]>>,
     <<ShapeKey(1), [paragraphs |-> <<LongText>>]>>,
     <<ShapeKey(0), [paragraphs |-> <<BulletText>>]>>}

WrittenShapesData ==
    {<<first>> : first \in WrittenEntries}
    \cup {pair \in {<<first, second>> : first \in WrittenEntries,
                                         second \in SecondEntries} :
            pair[1][1] # pair[2][1]}

\* Slide keys that are skipped, before the entry of "slide-0": "slide-3",
\* "slide-" and "notes".
SkippedSlideKeys == {SlideKey(3), <<"slide">>, <<"notes">>}

WrittenFiles ==
    {<< <<SlideKey(0), shapes_data>> >> : shapes_data \in WrittenShapesData}
    \cup {<< <<key, <<first>> >>, <<SlideKey(0), <<second>> >> >> :
            key \in SkippedSlideKeys, first \in SecondEntries,
            second \in SecondEntries}

InitApply == slide = <<>> /\ InitTools /\ InitNoFont /\ InitNoScripts
NextApply ==
    \/ AddShape(ApplyNodes, MaxApplyShapes)
    \/ ApplyContent(WrittenFiles)
    \/ ExtractOutput
SpecApply == InitApply /\ [][NextApply]_vars

---------------------------------------------------------------------------
(* apply_paragraph_formatting called on its own, on a paragraph that may   *)
(* have bullet elements, margins and a level already.                      *)

\* The bullet elements of <a:pPr> before the call; buClr and buBlip are
\* elements clear_paragraph_formatting leaves in place.
FormattedBullets ==
    {<<>>, <<"buChar">>, <<"buAutoNum">>, <<"buNone">>,
     <<"buClr", "buFont", "buChar">>, <<"buBlip">>,
     <<"buSzPct", "buFont", "buAutoNum">>, <<"buSzPts", "buNone">>}

FormattedParagraphs ==
    {Paragraph(runs, bu, margin[1], margin[2], lvl[1], lvl[2]) :
        runs \in {<<>>, <<Run(<<"b">>, <<>>, <<>>, <<>>, <<>>, <<>>)>>},
        bu \in FormattedBullets,
        margin \in {<< <<>>, <<>> >>, << <<342900>>, <<-342900>> >>},
        lvl \in {<< <<>>, <<>> >>, << <<1>>, <<>> >>, << <<1>>, <<"RIGHT">> >>}}

\* The dictionaries applied: bullet absent, false or true, with any level;
\* "DISTRIBUTE" is an alignment apply_paragraph_formatting has no name for.
FormattedRecords ==
    [text : {<<"a">>}, bullet : {<<>>, <<FALSE>>, <<TRUE>>},
     level : {<<>>, <<0>>, <<1>>, <<2>>},
     font_size : {<<>>, <<Rat(24, 1)>>, <<Rat(21, 2)>>},
     alignment : {<<>>, <<"CENTER">>, <<"DISTRIBUTE">>}]

ParagraphArgs == [paragraph : FormattedParagraphs, para_data : FormattedRecords]

ApplyParagraphFormatting ==
    /\ para_result = <<>>
    /\ para_result' =
          <<apply_paragraph_formatting(para_args.paragraph, para_args.para_data)>>
    /\ UNCHANGED <<but_paragraph_vars, para_args>>

InitParagraph ==
    /\ slide = <<>> /\ InitTools /\ InitNoFont /\ InitNoDelete /\ InitNoDeck /\ InitNoValidation
    /\ InitNoSlideScripts
    /\ para_args \in ParagraphArgs
    /\ para_result = <<>>
NextParagraph == ApplyParagraphFormatting
SpecParagraph == InitParagraph /\ [][NextParagraph]_vars

---------------------------------------------------------------------------
(* delete_slides called on its own. *)

\* The greatest number of slides of a presentation.
MaxSlides == 5

\* A slide that holds one picture, k inches from the left edge: the slide
\* that was at index k when the file was opened.
MarkerSlide(k) == <<Leaf(k * EMU_PER_INCH, 0, EMU_PER_INCH, EMU_PER_INCH, NoTextFrame)>>

\* The presentation of n such slides.
MarkerDeck(n) == [k \in 1..n |-> MarkerSlide(k - 1)]

\* Lists of slide indices as a replacements file gives them: in any order,
\* with repeats, with indices that are negative or too large.
IndexLists ==
    {<<>>, <<0>>, <<1>>, <<0, 2>>, <<2, 0>>, <<1, 2, 3>>, <<1, 1>>, <<-1, 2>>,
     <<MaxSlides, 0>>, <<0, 1, 2, 3, 4>>, <<7>>}

\* A key of the dictionary: absent, or present with a list.
IndexOptions == {<<>>} \cup {<<list>> : list \in IndexLists}

DeleteArgs ==
    [prs : {MarkerDeck(n) : n \in 0..MaxSlides},
     data : [slides_to_keep : IndexOptions, slides_to_delete : IndexOptions]]

DeleteSlides ==
    /\ delete_result = <<>>
    /\ delete_result' = <<delete_slides(delete_args.prs, delete_args.data)>>
    /\ UNCHANGED <<but_delete_vars, delete_args>>

InitDelete ==
    /\ slide = <<>> /\ InitTools /\ InitNoFont /\ InitNoParagraph /\ InitNoDeck /\ InitNoValidation
    /\ InitNoSlideScripts
    /\ delete_args \in DeleteArgs
    /\ delete_result = <<>>
NextDelete == DeleteSlides
SpecDelete == InitDelete /\ [][NextDelete]_vars

---------------------------------------------------------------------------
(* The application tool run on a presentation of several slides, with a    *)
(* replacements file that may name slides to keep or delete and a summary  *)
(* slide, or with a file missing.                                          *)

\* The greatest number of slides of the deck.
MaxDeckSlides == 3

\* The slide that was at index k: a text box with the text "a" above the
\* picture that marks the slide.
TextSlide(k) ==
    <<Leaf(0, 0, 4 * EMU_PER_INCH, EMU_PER_INCH, TextFrame(TextParagraphs, ""))>>
    \o MarkerSlide(k)

Decks ==
    UNION {[1..n -> BOOLEAN] : n \in 0..MaxDeckSlides}

\* The deck whose slide k has a text box exactly when with_text[k].
deck_of(with_text) ==
    [k \in 1..Len(with_text) |->
        IF with_text[k] THEN TextSlide(k - 1) ELSE MarkerSlide(k - 1)]

\* The text an entry for slide-N writes: the digit N.
Digit(n) == <<"0", "1", "2", "3", "4", "5", "6", "7", "8", "9">>[n + 1]
written_text(n) == <<Digit(n)>>

\* The values of a slide-N key: shape-0 replaced; shape-1, which no slide
\* of the deck has, and shape-0; null.
DeckShapesData(n) ==
    {<< <<ShapeKey(0), [paragraphs |-> <<[text |-> written_text(n)]>>]>> >>,
     << <<ShapeKey(1), [paragraphs |-> <<[text |-> written_text(n)]>>]>>,
        <<ShapeKey(0), [paragraphs |-> <<[text |-> written_text(n)]>>]>> >>,
     NullValue}

DeckSlideEntry(n) == {<<SlideKey(n), value>> : value \in DeckShapesData(n)}

\* slide-3 is beyond the last slide of every deck of MaxDeckSlides slides.
DeckSlideEntries ==
    {<<>>}
    \cup {<<first>> : first \in DeckSlideEntry(0) \cup DeckSlideEntry(1)
                              \cup DeckSlideEntry(MaxDeckSlides)}
    \cup {<<first, second>> :
            first \in DeckSlideEntry(1) \cup DeckSlideEntry(MaxDeckSlides),
            second \in DeckSlideEntry(0)}

SummaryData == [title |-> << <<"t">> >>, items |-> << << <<"x">>, <<"y">> >> >>]

DeckOptions ==
    {keep \o delete \o summary :
        keep \in {<<>>, << << <<"slides_to_keep">>, <<0>> >> >>,
                  << << <<"slides_to_keep">>, <<2, 0>> >> >>},
        delete \in {<<>>, << << <<"slides_to_delete">>, <<1>> >> >>,
                    << << <<"slides_to_delete">>, <<0, MaxDeckSlides + 2>> >> >>},
        summary \in {<<>>, << << <<"add_summary_slide">>, TRUE>> >>,
                     << << <<"add_summary_slide">>, TRUE>>,
                        << <<"summary_slide">>, SummaryData>> >>}}

\* A replacements file: missing, no JSON, or its entries.
DeckFiles ==
    {<<>>, NotJson}
    \cup {<<options \o entries>> : options \in DeckOptions, entries \in DeckSlideEntries}

ApplyContentToDeck ==
    /\ exit_code = <<>>
    /\ \E found \in BOOLEAN, file \in DeckFiles, flag \in BOOLEAN :
        \E result \in {main_on_files(IF found THEN <<deck>> ELSE <<>>, file, flag)} :
          /\ input_found' = found
          /\ replacements_file' = file
          /\ no_auto_shrink' = flag
          /\ exit_code' = result.exit_code
          /\ output' = result.output
          /\ modified' = result.modified
          /\ warnings' = result.warnings
          /\ printed' = result.printed
    /\ UNCHANGED <<slide, extraction_vars, walker_vars, json_data, reextracted,
                   font_vars, but_deck_vars, deck>>

InitDeck ==
    /\ slide = <<>> /\ InitTools /\ InitNoFont /\ InitNoParagraph /\ InitNoDelete /\ InitNoValidation
    /\ InitNoSlideScripts
    /\ deck \in {deck_of(with_text) : with_text \in Decks}
    /\ input_found = FALSE
    /\ replacements_file = <<>>
NextDeck == ApplyContentToDeck
SpecDeck == InitDeck /\ [][NextDeck]_vars

---------------------------------------------------------------------------
(* A run of a validation script: the validators record findings in any     *)
(* number and order, then main exits; or a validator raises an exception   *)
(* that nothing catches (content.json holding a list, not an object).      *)

\* The greatest number of errors, and of warnings, of a run.
MaxFindings == 2

ErrorTypes == {"json", "bullet_symbol", "slide_count"}
WarningTypes == {"schema", "structure", "text_overflow"}

AddError ==
    /\ validation_exit = <<>>
    /\ Len(validation.errors) < MaxFindings
    /\ \E error_type \in ErrorTypes : validation' = add_error(validation, error_type)
    /\ UNCHANGED <<but_validation_vars, validator, strict, validation_exit>>

AddWarning ==
    /\ validation_exit = <<>>
    /\ Len(validation.warnings) < MaxFindings
    /\ \E warn_type \in WarningTypes : validation' = add_warning(validation, warn_type)
    /\ UNCHANGED <<but_validation_vars, validator, strict, validation_exit>>

\* Only the ValidationResult of validate_pptx.py has info messages.
AddInfo ==
    /\ validation_exit = <<>>
    /\ validator = "validate_pptx"
    /\ validation.info = <<>>
    /\ validation' = add_info(validation, "pptx_loaded")
    /\ UNCHANGED <<but_validation_vars, validator, strict, validation_exit>>

\* main after the validation: the result is printed and the script exits.
ValidateContentMain ==
    /\ validation_exit = <<>>
    /\ validator = "validate_content"
    /\ validation_exit' = <<validate_content_exit(validation, strict)>>
    /\ UNCHANGED <<but_validation_vars, validator, strict, validation>>

ValidatePptxMain ==
    /\ validation_exit = <<>>
    /\ validator = "validate_pptx"
    /\ validation_exit' = <<validate_pptx_exit(validation)>>
    /\ UNCHANGED <<but_validation_vars, validator, strict, validation>>

\* A validator raises and the interpreter ends the run with exit code 1
\* and a traceback: nothing is printed of the result, whatever was recorded.
ValidatorRaises ==
    /\ validation_exit = <<>>
    /\ validation_exit' = <<1, "Traceback">>
    /\ UNCHANGED <<but_validation_vars, validator, strict, validation>>

InitValidation ==
    /\ slide = <<>> /\ InitTools /\ InitNoFont
    /\ InitNoParagraph /\ InitNoDelete /\ InitNoDeck /\ InitNoSlideScripts
    /\ \/ validator = "validate_content" /\ strict \in BOOLEAN
       \/ validator = "validate_pptx" /\ strict = FALSE
    /\ validation = ValidationResult
    /\ validation_exit = <<>>
NextValidation ==
    \/ AddError \/ AddWarning \/ AddInfo
    \/ ValidateContentMain \/ ValidatePptxMain \/ ValidatorRaises
SpecValidation == InitValidation /\ [][NextValidation]_vars

---------------------------------------------------------------------------
(* reorder_slides.py run on a template with a sequence of indices. *)

\* The greatest number of slides of the template, and of indices of the
\* sequence.
MaxTemplateSlides == 3
MaxSequence == 4

\* The template of n slides: slide k has the id 256 + k and the marker k.
Template(n) == [k \in 1..n |-> [id |-> 255 + k, shapes |-> MarkerSlide(k - 1)]]

\* The sequences over the indices of the template and the one beyond it.
Sequences(n) == UNION {[1..len -> 0..n] : len \in 1..MaxSequence}

RearrangeArgs ==
    UNION {[template : {Template(n)}, slide_sequence : Sequences(n)] :
              n \in 1..MaxTemplateSlides}

RearrangePresentation ==
    /\ rearrange_result = <<>>
    /\ rearrange_result' =
          <<reorder_main(rearrange_args.template, rearrange_args.slide_sequence)>>
    /\ UNCHANGED <<but_rearrange_vars, rearrange_args>>

InitRearrange ==
    /\ slide = <<>> /\ InitTools /\ InitNoFont
    /\ InitNoParagraph /\ InitNoDelete /\ InitNoDeck /\ InitNoValidation
    /\ InitNoMerge /\ InitNoWorkflow /\ InitNoDiagram
    /\ rearrange_args \in RearrangeArgs
    /\ rearrange_result = <<>>
NextRearrange == RearrangePresentation
SpecRearrange == InitRearrange /\ [][NextRearrange]_vars

---------------------------------------------------------------------------
---------------------------------------------------------------------------
(* merge_slides.py run on a template and a source. *)

\* The greatest number of slides of the source.
MaxSourceSlides == 3

\* The source of n slides: slide k has a marker of its own and a title
\* placeholder.
Source(n) ==
    [k \in 1..n |->
        [id |-> 255 + k,
         shapes |-> <<Leaf(0, 0, EMU_PER_INCH, EMU_PER_INCH,
                           TextFrame(TextParagraphs, "TITLE"))>>
                    \o MarkerSlide(MaxTemplateSlides + k)]]

\* A file: missing, or a presentation.
MergeFiles(presentations) == {<<>>} \cup {<<prs>> : prs \in presentations}

MergeArgs ==
    [template_file : MergeFiles({Template(n) : n \in 0..MaxTemplateSlides}),
     source_file : MergeFiles({Source(n) : n \in 0..MaxSourceSlides}),
     position : -2..(MaxTemplateSlides + 1),
     clear_template : BOOLEAN]

MergeSlidesMain ==
    /\ merge_result = <<>>
    /\ \E result \in {merge_slides(merge_args.template_file, merge_args.source_file,
                                   merge_args.position, merge_args.clear_template)} :
          merge_result' =
              <<[merged_count |-> result.merged_count, output |-> result.output,
                 exit_code |-> merge_exit(result.merged_count)]>>
    /\ UNCHANGED <<but_merge_vars, merge_args>>

InitMerge ==
    /\ slide = <<>> /\ InitTools /\ InitNoFont
    /\ InitNoParagraph /\ InitNoDelete /\ InitNoDeck /\ InitNoValidation
    /\ InitNoRearrange /\ InitNoWorkflow /\ InitNoDiagram
    /\ merge_args \in MergeArgs
    /\ merge_result = <<>>
NextMerge == MergeSlidesMain
SpecMerge == InitMerge /\ [][NextMerge]_vars

---------------------------------------------------------------------------
(* resume_workflow.py run from a phase, one step of main at a time. *)

WorkflowArgs ==
    [from_phase : {PHASES[i] : i \in 1..Len(PHASES)},
     skip_validation : BOOLEAN,
     template : BOOLEAN,
     content_ja : BOOLEAN,
     input_pptx : BOOLEAN,
     escalation : BOOLEAN,
     validate_returncode : {0, 1, 2},
     build_returncode : {0, 1}]

\* main has logged the start of the run and has not ended.
running == tracer_entries # <<>> /\ workflow_exit = <<>>

\* main up to the loop: the tracer logs the start, the phases are chosen.
ResumeMain ==
    /\ tracer_entries = <<>> /\ workflow_exit = <<>>
    /\ tracer_entries' = log(tracer_entries, "RESUME", "started")
    /\ phases_to_run' = phases_from(workflow_args.from_phase)
    /\ UNCHANGED <<but_workflow_vars, workflow_args, trace_file, escalation_file,
                   workflow_exit>>

\* The loop of main on a phase it passes over.
SkipPhase ==
    /\ running /\ phases_to_run # <<>>
    /\ already_completed(Head(phases_to_run))
    /\ phases_to_run' = Tail(phases_to_run)
    /\ UNCHANGED <<but_workflow_vars, workflow_args, tracer_entries, trace_file,
                   escalation_file, workflow_exit>>

\* The loop of main going on to the next phase after a phase that failed.
RunPhaseGoingOn ==
    /\ running /\ phases_to_run # <<>>
    /\ ~already_completed(Head(phases_to_run))
    /\ \E result \in
          {run_phase(Head(phases_to_run), workflow_args,
                     workflow_args.skip_validation /\ Head(phases_to_run) = "REVIEW_JSON",
                     tracer_entries, escalation_file)} :
          /\ escalation_file' = result.escalation
          /\ tracer_entries' = result.entries
          /\ phases_to_run' = Tail(phases_to_run)
          /\ UNCHANGED <<trace_file, workflow_exit>>
    /\ UNCHANGED <<but_workflow_vars, workflow_args>>

\* The loop of main on a phase it runs: on failure the trace is saved and
\* the run exits with 1.
RunPhase ==
    /\ running /\ phases_to_run # <<>>
    /\ ~already_completed(Head(phases_to_run))
    /\ \E result \in
          {run_phase(Head(phases_to_run), workflow_args,
                     workflow_args.skip_validation /\ Head(phases_to_run) = "REVIEW_JSON",
                     tracer_entries, escalation_file)} :
          /\ escalation_file' = result.escalation
          /\ IF result.success
             THEN /\ tracer_entries' = result.entries
                  /\ phases_to_run' = Tail(phases_to_run)
                  /\ UNCHANGED <<trace_file, workflow_exit>>
             ELSE /\ trace_file' = trace_file \o result.entries
                  /\ tracer_entries' = <<>>
                  /\ workflow_exit' = <<1>>
                  /\ UNCHANGED phases_to_run
    /\ UNCHANGED <<but_workflow_vars, workflow_args>>

\* The end of main: the trace is saved and the run ends with 0.
ResumeCompleted ==
    /\ running /\ phases_to_run = <<>>
    /\ trace_file' = trace_file \o tracer_entries
    /\ tracer_entries' = <<>>
    /\ workflow_exit' = <<0>>
    /\ UNCHANGED <<but_workflow_vars, workflow_args, phases_to_run, escalation_file>>

InitWorkflow ==
    /\ slide = <<>> /\ InitTools /\ InitNoFont
    /\ InitNoParagraph /\ InitNoDelete /\ InitNoDeck /\ InitNoValidation
    /\ InitNoRearrange /\ InitNoMerge /\ InitNoDiagram
    /\ workflow_args \in WorkflowArgs
    /\ phases_to_run = <<>>
    /\ tracer_entries = <<>>
    /\ trace_file = <<>>
    /\ escalation_file = (IF workflow_args.escalation THEN <<"open">> ELSE <<>>)
    /\ workflow_exit = <<>>
NextWorkflow == ResumeMain \/ SkipPhase \/ RunPhase \/ ResumeCompleted
SpecWorkflow == InitWorkflow /\ [][NextWorkflow]_vars

\* The script is one sequential process: while it has not ended, it takes
\* its next step.
LiveSpecWorkflow == SpecWorkflow /\ WF_vars(NextWorkflow)

---------------------------------------------------------------------------
(* insert_diagram_slides.py run on a base, a diagram file and a config. *)

\* The greatest number of insertions of a config.
MaxInsertions == 2

\* The insertions of a config: a source index of the diagram file or the one
\* beyond it, a target in the base, at its end or beyond it.
Insertions ==
    [source_index : 0..MaxSourceSlides,
     target_position : 0..(MaxTemplateSlides + 2)]

\* The configs: each source slide is named by one insertion at most.
Configs ==
    {config \in UNION {[1..n -> Insertions] : n \in 0..MaxInsertions} :
        \A j, k \in 1..Len(config) :
            j # k => config[j].source_index # config[k].source_index}

DiagramArgs ==
    [base : {Template(n) : n \in 0..MaxTemplateSlides},
     diagrams : {Source(MaxSourceSlides)},
     insertions : Configs]

InsertDiagramSlides ==
    /\ diagram_result = <<>>
    /\ diagram_result' =
          <<insert_diagram_slides(diagram_args.base, diagram_args.diagrams,
                                  diagram_args.insertions)>>
    /\ UNCHANGED <<but_diagram_vars, diagram_args>>

InitDiagram ==
    /\ slide = <<>> /\ InitTools /\ InitNoFont
    /\ InitNoParagraph /\ InitNoDelete /\ InitNoDeck /\ InitNoValidation
    /\ InitNoRearrange /\ InitNoMerge /\ InitNoWorkflow
    /\ diagram_args \in DiagramArgs
    /\ diagram_result = <<>>
NextDiagram == InsertDiagramSlides
SpecDiagram == InitDiagram /\ [][NextDiagram]_vars

---------------------------------------------------------------------------
(* The extraction tool run on a presentation of several slides. *)

\* A text box that touches no other shape of its slide, and two text boxes
\* below it that cross each other.
ClearBox == Leaf(0, 0, EMU_PER_INCH, HalfInch, TextFrame(TextParagraphs, "TITLE"))
UpperBox ==
    Leaf(0, 2 * EMU_PER_INCH, EMU_PER_INCH, EMU_PER_INCH, TextFrame(TextParagraphs, ""))
LowerBox ==
    Leaf(HalfInch, 2 * EMU_PER_INCH + HalfInch, EMU_PER_INCH, EMU_PER_INCH,
         TextFrame(MixedParagraphs, "BODY"))

\* Slides without text, without issues, and with issues: the crossing
\* boxes alone, below the clear box, and around it in the order of the
\* document.
InventorySlides ==
    {MarkerSlide(0), <<ClearBox>>, <<UpperBox, LowerBox>>,
     <<ClearBox, UpperBox, LowerBox>>, <<LowerBox, ClearBox, UpperBox>>}

InventoryDecks ==
    UNION {[1..n -> InventorySlides] : n \in 0..MaxDeckSlides}

\* extract_text_inventory on the presentation; detected and
\* shapes_with_positions are left as the last slide set them.
ExtractPresentationInventory ==
    /\ \E flag \in BOOLEAN :
          /\ issues_only' = flag
          /\ inventory' = extract_text_inventory(deck, flag)
    /\ extracted' = TRUE
    /\ detected' =
          (IF deck = <<>> THEN detected ELSE detected_list(deck[Len(deck)]))
    /\ shapes_with_positions' =
          (IF deck = <<>> THEN shapes_with_positions
           ELSE sorted_list(detected_list(deck[Len(deck)])))
    /\ UNCHANGED <<slide, walker_vars, application_vars, font_vars, script_vars>>

InitInventory ==
    /\ slide = <<>> /\ InitTools /\ InitNoFont /\ InitNoParagraph /\ InitNoDelete
    /\ InitNoValidation /\ InitNoSlideScripts
    /\ deck \in InventoryDecks
    /\ input_found = FALSE
    /\ replacements_file = <<>>
NextInventory == ExtractPresentationInventory
SpecInventory == InitInventory /\ [][NextInventory]_vars

(* What the claims are stated with: the slide read directly, without the   *)
(* walkers.                                                                *)

\* The shape at a path.
RECURSIVE node_at(_, _)
node_at(shps, path) ==
    IF Len(path) = 1 THEN shps[path[1]]
    ELSE node_at(shps[path[1]].shapes, Tail(path))

\* The sum of the local left (top) offsets of the shape at a path and of
\* the groups around it.
RECURSIVE abs_left(_, _)
abs_left(shps, path) ==
    shps[path[1]].left
    + (IF Len(path) = 1 THEN 0 ELSE abs_left(shps[path[1]].shapes, Tail(path)))

RECURSIVE abs_top(_, _)
abs_top(shps, path) ==
    shps[path[1]].top
    + (IF Len(path) = 1 THEN 0 ELSE abs_top(shps[path[1]].shapes, Tail(path)))

\* The paths of the shapes of a collection that are no groups.
RECURSIVE leaf_paths(_, _)
leaf_paths(shps, prefix) ==
    UNION {IF shps[i].shape_type = GROUP
           THEN leaf_paths(shps[i].shapes, Append(prefix, i))
           ELSE {Append(prefix, i)} : i \in 1..Len(shps)}

\* p comes before q in the pre-order traversal (p and q paths of leaves).
RECURSIVE path_before(_, _)
path_before(p, q) ==
    /\ p # <<>> /\ q # <<>>
    /\ \/ p[1] < q[1]
       \/ (p[1] = q[1] /\ path_before(Tail(p), Tail(q)))

\* The shape has a character that is no whitespace.
has_visible_text(shape) ==
    \E k \in 1..Len(shape.paragraphs) :
        \E r \in 1..Len(shape.paragraphs[k].runs) :
            \E c \in 1..Len(shape.paragraphs[k].runs[r].text) :
                shape.paragraphs[k].runs[r].text[c] \notin Whitespace

\* The shape is one the walker is to skip.
is_skipped(shape) ==
    \/ ~shape.has_text_frame
    \/ ~has_visible_text(shape)
    \/ shape.ph_type \in {"SLIDE_NUMBER", "FOOTER", "DATE"}

\* The paths of the shapes the walker is to keep.
surviving(shps) == {p \in leaf_paths(shps, <<>>) : ~is_skipped(node_at(shps, p))}

\* The paths of a list of the extraction tool.
paths_of(list) == [k \in 1..Len(list) |-> list[k][1].shape]

\* A list of paths holds each path of a set once and nothing else.
lists_exactly(paths, set) ==
    /\ {paths[k] : k \in 1..Len(paths)} = set
    /\ Len(paths) = Cardinality(set)

\* A list of paths of the slide is in visual order: ascending by (absolute
\* top, absolute left), shapes at the same position in pre-order.
in_visual_order(paths) ==
    \A i, j \in 1..Len(paths) :
        i < j =>
            LET ti == abs_top(slide, paths[i])
                tj == abs_top(slide, paths[j])
                li == abs_left(slide, paths[i])
                lj == abs_left(slide, paths[j])
            IN \/ ti < tj
               \/ (ti = tj /\ li < lj)
               \/ (ti = tj /\ li = lj /\ path_before(paths[i], paths[j]))

\* The shape keys shape-0 .. shape-(n-1).
ordinals(n) == {ShapeKey(k) : k \in 0..(n - 1)}

---------------------------------------------------------------------------
(* C1.  Cross-tool agreement: the extraction tool and the application tool *)
(* keep the same shapes of a slide and give each shape the same ordinal:   *)
(* the k-th entry of the extraction tool's sorted list is built from the   *)
(* k-th shape of the application tool's list, and the inventory's keys are *)
(* the ordinals of that list.                                              *)
C1_CrossToolAgreement ==
    (extracted /\ walked) =>
        /\ paths_of(shapes_with_positions) = shapes
        /\ ~issues_only => DOMAIN inventory = ordinals(Len(shapes))
        /\ \A key \in DOMAIN inventory :
               /\ key[2] + 1 \in 1..Len(shapes)
               /\ inventory[key].left =
                      Round2(emu_to_inches(abs_left(slide, shapes[key[2] + 1])))
               /\ inventory[key].top =
                      Round2(emu_to_inches(abs_top(slide, shapes[key[2] + 1])))

\* Both tools have run on a slide with a skipped shape, on which the visual
\* order of the kept shapes is not their traversal order.
C1_Witness ==
    /\ extracted /\ walked /\ ~issues_only
    /\ Len(shapes) >= 2
    /\ path_before(shapes[2], shapes[1])
    /\ Cardinality(leaf_paths(slide, <<>>)) > Len(shapes)

---------------------------------------------------------------------------
(* C7.  Visual sort and addressing: in both tools the sorted list is       *)
(* ascending by (absolute top, absolute left), shapes at the same position *)
(* keep their pre-order traversal order, and the ordinals are exactly      *)
(* 0..N-1 in that order.  The order is thereby fixed by the slide alone,   *)
(* so two runs on the same slide give the same assignment.                 *)
C7_VisualSort ==
    /\ extracted =>
           /\ in_visual_order(paths_of(shapes_with_positions))
           /\ \A k \in 1..Len(shapes_with_positions) :
                  /\ shapes_with_positions[k][2]
                         = abs_left(slide, shapes_with_positions[k][1].shape)
                  /\ shapes_with_positions[k][3]
                         = abs_top(slide, shapes_with_positions[k][1].shape)
           /\ ~issues_only =>
                  DOMAIN inventory = ordinals(Len(shapes_with_positions))
           /\ \A key \in DOMAIN inventory :
                  inventory[key] =
                      shape_to_dict(shapes_with_positions[key[2] + 1][1])
    /\ walked =>
           /\ in_visual_order(shapes)
           /\ lists_exactly(shapes, surviving(slide))

\* Both tools have sorted a slide on which two kept shapes share a position
\* and a third kept shape, later in the traversal, lies before them.
C7_Witness ==
    /\ extracted /\ walked /\ ~issues_only
    /\ Len(shapes) = 3
    /\ abs_top(slide, shapes[2]) = abs_top(slide, shapes[3])
    /\ abs_left(slide, shapes[2]) = abs_left(slide, shapes[3])
    /\ path_before(shapes[2], shapes[1])
    /\ DOMAIN inventory = ordinals(3)

---------------------------------------------------------------------------
(* C8.  Recursive walker offsets: a group contributes no entry of its own; *)
(* every surviving shape that is no group is emitted once, in pre-order,   *)
(* with absolute position = its local offset plus the local offsets of all *)
(* the groups around it, in both tools.  On the scenario slide (a title at *)
(* top 0.5in, a group at (1in, 2in) with text boxes at local (0, 0) and    *)
(* (0, 1in)) the absolute tops are 0.5, 2.0, 3.0 with ordinals 0, 1, 2.    *)
C8_WalkerOffsets ==
    /\ extracted =>
           /\ lists_exactly(paths_of(detected), surviving(slide))
           /\ \A k \in 1..Len(detected) :
                  LET path == detected[k][1].shape IN
                  /\ node_at(slide, path).shape_type # GROUP
                  /\ detected[k][2] = abs_left(slide, path)
                  /\ detected[k][3] = abs_top(slide, path)
                  /\ detected[k][1].left = Rat(abs_left(slide, path), EMU_PER_INCH)
                  /\ detected[k][1].top = Rat(abs_top(slide, path), EMU_PER_INCH)
           /\ \A i, j \in 1..Len(detected) :
                  i < j => path_before(detected[i][1].shape, detected[j][1].shape)
    /\ walked =>
           LET list == get_shapes_recursive(slide, 0, 0, <<>>) IN
           /\ lists_exactly([k \in 1..Len(list) |-> list[k][1]], surviving(slide))
           /\ \A k \in 1..Len(list) :
                  /\ node_at(slide, list[k][1]).shape_type # GROUP
                  /\ list[k][2] = abs_left(slide, list[k][1])
                  /\ list[k][3] = abs_top(slide, list[k][1])
           /\ \A i, j \in 1..Len(list) :
                  i < j => path_before(list[i][1], list[j][1])
    /\ (slide = ScenarioSlide /\ extracted /\ walked /\ ~issues_only) =>
           /\ shapes = <<<<1>>, <<2, 1>>, <<2, 2>>>>
           /\ paths_of(shapes_with_positions) = shapes
           /\ DOMAIN inventory = ordinals(3)
           /\ inventory[ShapeKey(0)].top = Rat(1, 2)
           /\ inventory[ShapeKey(1)].top = Rat(2, 1)
           /\ inventory[ShapeKey(2)].top = Rat(3, 1)
           /\ inventory[ShapeKey(0)].left = Rat(0, 1)
           /\ inventory[ShapeKey(1)].left = Rat(1, 1)
           /\ inventory[ShapeKey(2)].left = Rat(1, 1)

\* Both tools have walked a slide with a kept shape inside a group inside a
\* group, both groups at an offset.
C8_Witness ==
    /\ extracted /\ walked
    /\ \E k \in 1..Len(detected) :
           /\ Len(detected[k][1].shape) = 3
           /\ detected[k][2] > node_at(slide, detected[k][1].shape).left
           /\ detected[k][3] = 2 * HalfInch + node_at(slide, detected[k][1].shape).top

\* Both tools have run on the scenario slide.
C8_ScenarioWitness ==
    slide = ScenarioSlide /\ extracted /\ walked /\ ~issues_only

---------------------------------------------------------------------------
(* C9.  Walker filter: in both tools a shape that is no group is skipped   *)
(* exactly when it has no text frame, or its text frame's trimmed text is  *)
(* empty, or it is a slide-number, footer or date placeholder (whatever    *)
(* its text); every other such shape is in the walker's output exactly     *)
(* once.                                                                   *)
C9_WalkerFilter ==
    /\ extracted => lists_exactly(paths_of(detected), surviving(slide))
    /\ extracted => lists_exactly(paths_of(shapes_with_positions), surviving(slide))
    /\ walked => lists_exactly(shapes, surviving(slide))

\* Both tools have walked a slide holding a date placeholder with text,
\* which is skipped, and a title placeholder with text, which is kept.
C9_Witness ==
    /\ extracted /\ walked
    /\ \E p \in leaf_paths(slide, <<>>) :
           /\ node_at(slide, p).ph_type = "DATE"
           /\ has_visible_text(node_at(slide, p))
    /\ Len(shapes) = 1
    /\ Len(detected) = 1
    /\ node_at(slide, shapes[1]).ph_type = "TITLE"

---------------------------------------------------------------------------
(* C10.  Overlap symmetry: after detect_overlaps on a list of positioned   *)
(* shapes, entry i's overlap map holds entry j with area X if and only if  *)
(* entry j's map holds entry i with the same area X; no entry lists        *)
(* itself, and every key names an entry of the list.                       *)
C10_OverlapSymmetry ==
    extracted =>
        \A i, j \in 1..Len(detected) :
            LET mine   == detected[i][1].overlap
                theirs == detected[j][1].overlap
            IN /\ ShapeKey(i - 1) \notin DOMAIN mine
               /\ DOMAIN mine \subseteq ordinals(Len(detected))
               /\ ShapeKey(j - 1) \in DOMAIN mine
                      <=> ShapeKey(i - 1) \in DOMAIN theirs
               /\ ShapeKey(j - 1) \in DOMAIN mine
                      => mine[ShapeKey(j - 1)] = theirs[ShapeKey(i - 1)]

\* detect_overlaps has run on three shapes, one overlapping another and
\* clear of the third.
C10_Witness ==
    /\ extracted
    /\ Len(detected) = 3
    /\ \E i, j, k \in 1..3 :
           /\ ShapeKey(j - 1) \in DOMAIN detected[i][1].overlap
           /\ k # i
           /\ ShapeKey(k - 1) \notin DOMAIN detected[i][1].overlap

---------------------------------------------------------------------------
(* C2.  In the inventory of extract_text_inventory every key shape-K of a  *)
(* shape's overlap.overlapping_shapes names the other shape by its ordinal *)
(* after the visual sort: shape-K is another key of the same slide, and    *)
(* the shape stored under it has a bounding box that intersects this       *)
(* shape's with area > 0.                                                  *)

\* The bounding boxes of the shapes at two paths intersect with area > 0.
boxes_intersect(p, q) ==
    /\ abs_left(slide, p) < abs_left(slide, q) + node_at(slide, q).width
    /\ abs_left(slide, q) < abs_left(slide, p) + node_at(slide, p).width
    /\ abs_top(slide, p) < abs_top(slide, q) + node_at(slide, q).height
    /\ abs_top(slide, q) < abs_top(slide, p) + node_at(slide, p).height

C2_OverlapKeysAreOrdinals ==
    extracted =>
        \A key \in DOMAIN inventory :
            \A other \in DOMAIN inventory[key].overlap :
                /\ other # key
                /\ other \in DOMAIN inventory
                /\ boxes_intersect(shapes_with_positions[key[2] + 1][1].shape,
                                   shapes_with_positions[other[2] + 1][1].shape)

---------------------------------------------------------------------------
\* C3 (shrink-only font policy): whatever the text, the width, the original
\* size and the minimum size, calculate_optimal_font_size never returns a
\* size greater than the original size.
C3_ShrinkOnly ==
    font_result # <<>> => RatLe(font_result[1], font_args.original_font_size)

---------------------------------------------------------------------------
(* The round trip of a paragraph record. *)

\* The entries <<shape key, shape dictionary>> of the replacements file
\* that name the slide.
applied_entries == IF json_data = <<>> THEN <<>> ELSE json_data[1][2]

\* The width in EMU of the shape the extraction lists under a key.
width_of(key) == node_at(slide, shapes_with_positions[key[2] + 1][1].shape).width

\* Once the inventory was applied back and the output extracted again:
\* the triples of a record applied, the record extracted again at the same
\* place, and the width of their shape.
round_trips ==
    IF reextracted = <<>> THEN {}
    ELSE UNION {
            {<<applied_entries[k][2].paragraphs[i],
               reextracted[1][applied_entries[k][1]].paragraphs[i],
               width_of(applied_entries[k][1])>> :
                i \in 1..Len(applied_entries[k][2].paragraphs)} :
            k \in 1..Len(applied_entries)}

\* Every shape applied is extracted again with as many records.
same_records ==
    reextracted # <<>> =>
        \A k \in 1..Len(applied_entries) :
            /\ applied_entries[k][1] \in DOMAIN reextracted[1]
            /\ Len(reextracted[1][applied_entries[k][1]].paragraphs)
                   = Len(applied_entries[k][2].paragraphs)

same_text_and_bullet(r, r2) ==
    /\ r2.text = r.text /\ r2.bullet = r.bullet /\ r2.level = r.level

same_font_but_size(r, r2) ==
    /\ r2.font_name = r.font_name /\ r2.bold = r.bold
    /\ r2.italic = r.italic /\ r2.underline = r.underline

\* The size the application takes for a record, and the estimated width of
\* the record's longest line at that size.
size_of(r) == IF r.font_size = <<>> THEN Rat(18, 1) ELSE r.font_size[1]
inches_of(w) == IF w = 0 THEN Rat(10, 1) ELSE Rat(w, 914400)
line_width(r) == estimate_text_width(max_line(r.text), size_of(r))

\* Auto-shrink changes the record: it is on, the line is wider than 95% of
\* the shape, and the size is above the floor of 12 points.
shrink_fires(r, w) ==
    /\ ~no_auto_shrink
    /\ RatLt(RatMul(Rat(95, 100), inches_of(w)), line_width(r))
    /\ RatLt(Rat(12, 1), size_of(r))

\* C4 as stated (round trip of a paragraph): a record obtained from a
\* shape, applied back unchanged with apply_shape_text and extracted
\* again, comes back with the same text, bullet state, level, alignment,
\* font_size, font_name, bold, italic and underline.
C4_RoundTripSame ==
    /\ same_records
    /\ \A t \in round_trips :
          /\ same_text_and_bullet(t[1], t[2])
          /\ same_font_but_size(t[1], t[2])
          /\ t[2].alignment = t[1].alignment
          /\ t[2].font_size = t[1].font_size

\* C4 amended: the record comes back with the same text, bullet state,
\* level, font_name, bold, italic and underline; with the same alignment,
\* but LEFT for a bullet record that names no alignment; and, when
\* auto-shrink does not change the record, with no font_size if it had
\* none and else with its font_size or at most 0.01 point less; when
\* auto-shrink changes it, with a font_size of at least 12 points that is
\* less than the size applied (the record's, or 18 points).
C4_RoundTripUpToShrink ==
    /\ same_records
    /\ \A t \in round_trips :
          /\ same_text_and_bullet(t[1], t[2])
          /\ same_font_but_size(t[1], t[2])
          /\ t[2].alignment =
                (IF t[1].bullet = <<TRUE>> /\ t[1].alignment = <<>>
                 THEN <<"LEFT">> ELSE t[1].alignment)
          /\ IF shrink_fires(t[1], t[3])
             THEN /\ t[2].font_size # <<>>
                  /\ RatLe(Rat(12, 1), t[2].font_size[1])
                  /\ RatLt(t[2].font_size[1], size_of(t[1]))
             ELSE IF t[1].font_size = <<>> THEN t[2].font_size = <<>>
             ELSE /\ t[2].font_size # <<>>
                  /\ RatLe(t[2].font_size[1], t[1].font_size[1])
                  /\ RatLe(RatSub(t[1].font_size[1], Rat(1, 100)), t[2].font_size[1])

\* A centred bullet record of level 1 in bold 10 point Arial came back
\* as it was.
C4_Witness ==
    \E t \in round_trips :
        /\ t[1].bullet = <<TRUE>> /\ t[1].level = <<1>>
        /\ t[1].alignment = <<"CENTER">>
        /\ t[1].font_size = <<Rat(10, 1)>>
        /\ t[1].font_name = <<"Arial">> /\ t[1].bold = <<TRUE>>
        /\ t[2] = t[1]

\* Auto-shrink changed a record of 18 points to 13.68 points.
C4_ShrinkWitness ==
    \E t \in round_trips :
        /\ t[1].font_size = <<Rat(18, 1)>>
        /\ t[2].font_size = <<Rat(1368, 100)>>

---------------------------------------------------------------------------
(* The run of the application tool on a replacements file. *)

\* The entries <<shape key, shape dictionary>> the file has for "slide-0"
\* that name a shape of the slide and give it paragraphs, each with the
\* path of its shape.
RECURSIVE entries_of(_, _)
entries_of(file, key) ==
    IF file = <<>> THEN <<>>
    ELSE (IF Head(file)[1] = key THEN Head(file)[2] ELSE <<>>)
         \o entries_of(Tail(file), key)

addressed ==
    LET entries == entries_of(json_data, SlideKey(0))
        paths   == extract_shapes_from_slide(slide)
    IN {<<entries[k], paths[entries[k][1][2] + 1]>> :
            k \in {j \in 1..Len(entries) :
                      /\ Len(entries[j][1]) = 2
                      /\ entries[j][1][1] = "shape"
                      /\ entries[j][1][2] \in 0..(Len(paths) - 1)
                      /\ "paragraphs" \in DOMAIN entries[j][2]}}

\* A paragraph dictionary whose colour is six characters that are not all
\* hexadecimal digits: applying it fails.
fails(para_data) ==
    /\ "color" \in DOMAIN para_data
    /\ \E k \in 1..6 :
          para_data.color[1][k] \notin
             {"0", "1", "2", "3", "4", "5", "6", "7", "8", "9",
              "A", "B", "C", "D", "E", "F"}

\* The paragraphs of the shape are those of the entry.
replaced(shape, paragraphs) ==
    /\ Len(shape.paragraphs) = Len(paragraphs)
    /\ \A i \in 1..Len(paragraphs) :
          paragraph_text(shape.paragraphs[i]) = replace_vt(paragraphs[i].text)

\* C5 (per-item failure isolation): when the run has ended, whether or not
\* the replacement of a shape failed, the output file is written and every
\* other shape the file addresses has its replacement.
C5_FailureIsolated ==
    exit_code # <<>> =>
        /\ exit_code = <<0>>
        /\ output # <<>>
        /\ \A a \in addressed :
              (\A i \in 1..Len(a[1][2].paragraphs) : ~fails(a[1][2].paragraphs[i]))
              => replaced(node_at(output[1][1], a[2]), a[1][2].paragraphs)

\* The warnings of the report that name a shape.
warnings_for(slide_key, shape_key) ==
    {k \in 1..Len(warnings) :
        warnings[k][2] = slide_key /\ warnings[k][3] = shape_key}

\* The line of a dictionary is wider than the margin: 95% of the width of
\* the shape when auto-shrink is on and the size is above its floor of 12
\* points, so that a shrink is decided on; 100% otherwise.
over_margin(para_data, w) ==
    LET r == [text |-> para_data.text,
              font_size |-> IF "font_size" \in DOMAIN para_data
                            THEN para_data.font_size ELSE <<>>]
        margin == IF ~no_auto_shrink /\ RatLt(Rat(12, 1), size_of(r))
                  THEN Rat(95, 100) ELSE Rat(1, 1)
    IN RatLt(RatMul(margin, inches_of(w)), line_width(r))

\* C6 (overflow warning): after a run that applied its replacements, every
\* paragraph applied whose longest line is wider than the margin has a
\* warning in the report: for each shape, at least as many warnings as it
\* has such paragraphs.
C6_OverflowWarned ==
    exit_code = <<0>> =>
        \A a \in addressed :
            Cardinality({i \in 1..Len(a[1][2].paragraphs) :
                            over_margin(a[1][2].paragraphs[i],
                                        node_at(slide, a[2]).width)})
                <= Cardinality(warnings_for(SlideKey(0), a[1][1]))

\* The same for the runs with auto-shrink on, where it holds.
C6_WarnedWithAutoShrink == no_auto_shrink \/ C6_OverflowWarned

---------------------------------------------------------------------------
(* The size calculate_optimal_font_size is to return, stated with the      *)
(* widths of the character classes: 0.9 em for a wide character, 0.5 em    *)
(* for any other, an em being font_size / 72 inches.                       *)

\* The first of the longest lines of the text that was passed.
is_longest_line(lines, k) ==
    /\ \A j \in 1..Len(lines) : Len(lines[j]) <= Len(lines[k])
    /\ \A j \in 1..(k - 1) : Len(lines[j]) < Len(lines[k])

wide_count(line) == Cardinality({k \in 1..Len(line) : line[k] \in JapaneseChars})

\* (0.9 * wide + 0.5 * narrow) * size / 72, in inches.
width_at(line, size) ==
    LET wide   == wide_count(line)
        narrow == Len(line) - wide
    IN RatMul(Rat(9 * wide + 5 * narrow, 10), RatDiv(size, Rat(72, 1)))

expected_size(line, width, original, minimum) ==
    LET available == RatMul(Rat(95, 100), width)
        estimated == width_at(line, original)
        scaled    == RatMul(original, RatDiv(available, estimated))
    IN IF RatLe(estimated, available) THEN original
       ELSE IF RatLt(scaled, minimum) THEN minimum ELSE scaled

\* 20 narrow characters at 18pt in a 1-inch shape with the 12pt floor.
ScenarioFontArgs ==
    [text |-> Narrow(20), shape_width_inches |-> Rat(1, 1),
     original_font_size |-> Rat(18, 1), min_font_size |-> Rat(12, 1)]

\* C11.  calculate_optimal_font_size returns the original size unchanged
\* when the estimated width of the longest line at the original size is at
\* most 95% of the available width; otherwise it returns
\* original * (0.95 * width / estimated width), clamped from below to the
\* minimum size.  For 20 narrow characters at 18pt in a 1-inch shape with
\* the 12pt floor it returns 12.0.
C11_OptimalFontSize ==
    font_result # <<>> =>
        /\ \E k \in 1..Len(split_lines(font_args.text)) :
              /\ is_longest_line(split_lines(font_args.text), k)
              /\ font_result[1] =
                    expected_size(split_lines(font_args.text)[k],
                                  font_args.shape_width_inches,
                                  font_args.original_font_size,
                                  font_args.min_font_size)
        /\ font_args = ScenarioFontArgs => font_result[1] = Rat(12, 1)

\* The scenario has been computed: the scaled size 6.84 is below the floor.
C11_Witness ==
    /\ font_result # <<>>
    /\ font_args = ScenarioFontArgs
    /\ font_result[1] = Rat(12, 1)

\* A text that fits keeps its size.
C11_FitsWitness ==
    /\ font_result # <<>>
    /\ font_args.text # <<>>
    /\ RatLe(width_at(max_line(font_args.text), font_args.original_font_size),
             RatMul(Rat(95, 100), font_args.shape_width_inches))
    /\ font_result[1] = font_args.original_font_size

\* A text that does not fit is scaled to a size between the floor and the
\* original size.
C11_ScaledWitness ==
    /\ font_result # <<>>
    /\ RatLt(font_args.min_font_size, font_result[1])
    /\ RatLt(font_result[1], font_args.original_font_size)

\* Two lines of the same length and of different widths: the first counts.
C11_TieWitness ==
    /\ font_result # <<>>
    /\ font_args.text = Narrow(2) \o <<"LF">> \o Wide(2)
    /\ font_args.shape_width_inches = Rat(1, 2)
    /\ font_args.original_font_size = Rat(24, 1)
    /\ font_result[1] = Rat(24, 1)

---------------------------------------------------------------------------
\* C12.  Bullet/indent exclusivity: for every paragraph record with
\* bullet == false (or no bullet key) applied by apply_paragraph_formatting,
\* whatever value the record gives for level, the resulting paragraph has
\* left margin 0 and indent 0, carries an explicit no-bullet marker and no
\* bullet-character or auto-number marker; the level has no effect: the
\* result is the one of the same record without a level.
C12_BulletIndentExclusive ==
    (para_result # <<>> /\ para_args.para_data.bullet \in {<<>>, <<FALSE>>}) =>
        /\ para_result[1].paragraph.pPr.marL = <<0>>
        /\ para_result[1].paragraph.pPr.indent = <<0>>
        /\ HasTag(para_result[1].paragraph.pPr.bu, "buNone")
        /\ ~HasTag(para_result[1].paragraph.pPr.bu, "buChar")
        /\ ~HasTag(para_result[1].paragraph.pPr.bu, "buAutoNum")
        /\ para_result[1] =
              apply_paragraph_formatting(para_args.paragraph,
                  [para_args.para_data EXCEPT !.level = <<>>])

\* A record with bullet false and level 2 has been applied to a paragraph
\* that had a bullet character, a left margin and a level.
C12_Witness ==
    /\ para_result # <<>>
    /\ para_args.para_data.bullet = <<FALSE>>
    /\ para_args.para_data.level = <<2>>
    /\ HasTag(para_args.paragraph.pPr.bu, "buChar")
    /\ para_args.paragraph.pPr.marL = <<342900>>
    /\ para_args.paragraph.pPr.lvl = <<1>>
    /\ para_result[1].paragraph.pPr.marL = <<0>>

---------------------------------------------------------------------------
(* The slides a call of delete_slides is to leave. *)

\* The original indices that are to survive, by the two keys of data.
survivors(total_slides, data) ==
    IF data.slides_to_keep # <<>>
    THEN {i \in 0..(total_slides - 1) :
            \E k \in 1..Len(data.slides_to_keep[1]) : data.slides_to_keep[1][k] = i}
    ELSE IF data.slides_to_delete # <<>>
    THEN {i \in 0..(total_slides - 1) :
            \A k \in 1..Len(data.slides_to_delete[1]) : data.slides_to_delete[1][k] # i}
    ELSE 0..(total_slides - 1)

\* The original index of a slide of MarkerDeck.
original_index(marker_slide) == marker_slide[1].left \div EMU_PER_INCH

\* The original indices of the slides of a presentation, in its order.
original_indices(prs) == [k \in 1..Len(prs) |-> original_index(prs[k])]

\* A sequence of numbers that lists a set once each, ascending.
ascending_list_of(seq, set) ==
    /\ Len(seq) = Cardinality(set)
    /\ \A k \in 1..Len(seq) : seq[k] \in set
    /\ \A j, k \in 1..Len(seq) : j < k => seq[j] < seq[k]

\* C13.  Slide deletion result: delete_slides leaves exactly the slides
\* whose original index is in slides_to_keep when that key is present
\* (slides_to_delete is then ignored), and otherwise exactly the slides
\* whose original index is not in slides_to_delete; survivors keep their
\* original relative order, out-of-range indices are skipped, and the
\* returned count is the number of slides removed.  With keep = [0, 2] and
\* delete = [1, 2, 3] on a deck of 5 slides, slides 0 and 2 survive.
C13_DeletionResult ==
    delete_result # <<>> =>
        /\ ascending_list_of(original_indices(delete_result[1].prs),
                             survivors(Len(delete_args.prs), delete_args.data))
        /\ delete_result[1].deleted_count =
              Len(delete_args.prs) - Len(delete_result[1].prs)
        /\ (/\ Len(delete_args.prs) = 5
            /\ delete_args.data.slides_to_keep = << <<0, 2>> >>
            /\ delete_args.data.slides_to_delete = << <<1, 2, 3>> >>)
           => original_indices(delete_result[1].prs) = <<0, 2>>

\* The scenario has run: both keys present, three slides removed.
C13_Witness ==
    /\ delete_result # <<>>
    /\ Len(delete_args.prs) = 5
    /\ delete_args.data.slides_to_keep = << <<0, 2>> >>
    /\ delete_args.data.slides_to_delete = << <<1, 2, 3>> >>
    /\ original_indices(delete_result[1].prs) = <<0, 2>>
    /\ delete_result[1].deleted_count = 3

\* No slides_to_keep: an index out of range is skipped, the others deleted.
C13_SkipWitness ==
    /\ delete_result # <<>>
    /\ Len(delete_args.prs) = 4
    /\ delete_args.data.slides_to_keep = <<>>
    /\ delete_args.data.slides_to_delete = << <<-1, 2>> >>
    /\ original_indices(delete_result[1].prs) = <<0, 1, 3>>
    /\ delete_result[1].deleted_count = 1

---------------------------------------------------------------------------
(* The run of the application tool on a deck, read from the files and the  *)
(* output.                                                                 *)

\* The entries of the replacements file, when it exists and is JSON.
file_entries ==
    IF replacements_file = <<>> \/ replacements_file = NotJson THEN <<>>
    ELSE replacements_file[1]

\* The value the file gives for an option: the empty sequence if none.
option_value(key) ==
    IF \E k \in 1..Len(file_entries) : file_entries[k][1] = <<key>>
    THEN <<file_entries[CHOOSE k \in 1..Len(file_entries) :
                           file_entries[k][1] = <<key>>][2]>>
    ELSE <<>>

\* The file's slides_to_keep and slides_to_delete.
deletion_options ==
    [slides_to_keep |-> option_value("slides_to_keep"),
     slides_to_delete |-> option_value("slides_to_delete")]

\* The file has an entry for "slide-i" (the file has no key twice).
has_slide_entry(i) ==
    \E k \in 1..Len(file_entries) : file_entries[k][1] = <<"slide", i>>
slide_entry_value(i) ==
    file_entries[CHOOSE k \in 1..Len(file_entries) :
                    file_entries[k][1] = <<"slide", i>>][2]

\* The file asks for a summary slide and gives its items.
summary_requested ==
    /\ option_value("add_summary_slide") = <<TRUE>>
    /\ option_value("summary_slide") # <<>>

\* A slide of the output is the summary slide: its first shape is a title
\* placeholder, which no slide of the deck has.
is_summary(out_slide) == out_slide[1].ph_type = "TITLE"

\* The slides of the output that come from the deck, in their order.
RECURSIVE content_slides(_)
content_slides(out) ==
    IF out = <<>> THEN <<>>
    ELSE (IF is_summary(Head(out)) THEN <<>> ELSE <<Head(out)>>)
         \o content_slides(Tail(out))

\* The original index of a slide of the deck: its last shape is the marker.
deck_index(deck_slide) == deck_slide[Len(deck_slide)].left \div EMU_PER_INCH

\* The text of the text box of a slide of the deck that has one.
has_text_box(deck_slide) == Len(deck_slide) = 2
text_box_text(deck_slide) == paragraph_text(deck_slide[1].paragraphs[1])

\* C14.  Ordering of one application run: the replacements are applied
\* before any slide is deleted and the summary slide is added after the
\* deletion, so that every slide-N key and every index of slides_to_keep /
\* slides_to_delete refers to the slide's original position: in the output
\* the slides of the deck that survive are those chosen by their original
\* indices, in their order; each carries the text of the entry keyed by
\* its original index, or its own text if there is none; and the summary
\* slide, which no key and no index refers to, is there exactly when it
\* was asked for, as the second slide (the first if no slide survives).
C14_OriginalPositions ==
    output # <<>> =>
        /\ ascending_list_of(
              [k \in 1..Len(content_slides(output[1])) |->
                  deck_index(content_slides(output[1])[k])],
              survivors(Len(deck), deletion_options))
        /\ \A k \in 1..Len(content_slides(output[1])) :
              has_text_box(content_slides(output[1])[k]) =>
                 text_box_text(content_slides(output[1])[k]) =
                    IF has_slide_entry(deck_index(content_slides(output[1])[k]))
                    THEN written_text(deck_index(content_slides(output[1])[k]))
                    ELSE <<"a">>
        /\ Len(output[1]) =
              Len(content_slides(output[1])) + (IF summary_requested THEN 1 ELSE 0)
        /\ summary_requested =>
              is_summary(output[1][IF Len(output[1]) > 1 THEN 2 ELSE 1])

\* A run that replaced the text of the slide at index 1, deleted the slide
\* at index 0 and added the summary slide: the slide that was at index 1
\* is first and carries the text written for slide-1, the summary slide is
\* second.
C14_Witness ==
    /\ output # <<>>
    /\ Len(deck) = 3
    /\ has_slide_entry(1)
    /\ deletion_options.slides_to_keep = <<>>
    /\ deletion_options.slides_to_delete # <<>>
    /\ summary_requested
    /\ Len(output[1]) = 3
    /\ deck_index(output[1][1]) = 1
    /\ has_text_box(output[1][1])
    /\ text_box_text(output[1][1]) = written_text(1)
    /\ is_summary(output[1][2])
    /\ deck_index(output[1][3]) = 2

---------------------------------------------------------------------------
(* Keys of the replacements file that name no slide or shape of the deck. *)

\* The files are found and the JSON is read.
files_loaded ==
    input_found /\ replacements_file # <<>> /\ replacements_file # NotJson

\* The number of shapes of a slide the application tool can address.
addressable(deck_slide) == Cardinality(surviving(deck_slide))

\* The slides the file has an entry for, inside and beyond the deck.
entered_slides == {n \in 0..(MaxDeckSlides + 1) : has_slide_entry(n)}
slides_in_range == {n \in entered_slides : n < Len(deck)}
slides_out_of_range == {n \in entered_slides : n >= Len(deck)}

\* An entry inside the deck whose value is null makes the run fail: the
\* failure of an item, not a key that matches nothing.
some_entry_fails == \E n \in slides_in_range : slide_entry_value(n) = NullValue

\* The shape indices the entry for slide n names, inside and beyond the
\* shapes of the slide.
shape_indices(n) ==
    {slide_entry_value(n)[k][1][2] : k \in 1..Len(slide_entry_value(n))}
shapes_in_range(n) == {m \in shape_indices(n) : m < addressable(deck[n + 1])}
shapes_out_of_range(n) == {m \in shape_indices(n) : m >= addressable(deck[n + 1])}

RECURSIVE sum_over(_, _)
sum_over(set, n) ==
    IF set = {} THEN n
    ELSE sum_over(set \ {CHOOSE s \in set : TRUE},
                  n + Cardinality(shapes_in_range(CHOOSE s \in set : TRUE)))

was_printed(line) == \E k \in 1..Len(printed) : printed[k] = line

\* C15.  Structural mismatch is a per-item skip: a slide-N key with N not
\* less than the number of slides, or a shape-M key with M not less than
\* the number of surviving shapes of its slide, modifies no shape, is not
\* counted as modified, produces a printed warning and does not stop the
\* run: the output is written, the count is that of the entries that name
\* a shape, and every such entry is applied.
C15_MismatchSkipped ==
    (exit_code # <<>> /\ files_loaded /\ ~some_entry_fails) =>
        /\ output # <<>>
        /\ \A n \in slides_out_of_range :
              was_printed(<<"Slide index out of range", n>>)
        /\ \A n \in slides_in_range : \A m \in shapes_out_of_range(n) :
              was_printed(<<"Shape index out of range", m, SlideKey(n)>>)
        /\ modified = sum_over(slides_in_range, 0)
        /\ \A k \in 1..Len(content_slides(output[1])) :
              IF /\ has_slide_entry(deck_index(content_slides(output[1])[k]))
                 /\ has_text_box(content_slides(output[1])[k])
              THEN text_box_text(content_slides(output[1])[k]) =
                      written_text(deck_index(content_slides(output[1])[k]))
              ELSE content_slides(output[1])[k] =
                      deck[deck_index(content_slides(output[1])[k]) + 1]

\* A run on a file whose first key names a slide beyond the deck and whose
\* second key names slide 0 with a shape beyond its shapes and then its
\* text box: one shape is modified and the output has the text.
C15_Witness ==
    /\ exit_code # <<>> /\ files_loaded /\ ~some_entry_fails
    /\ slides_out_of_range # {}
    /\ has_slide_entry(0)
    /\ Len(deck) > 0
    /\ shapes_out_of_range(0) = {1}
    /\ shapes_in_range(0) = {0}
    /\ modified = 1
    /\ output # <<>>
    /\ Len(output[1]) > 0
    /\ ~is_summary(output[1][1])
    /\ deck_index(output[1][1]) = 0
    /\ text_box_text(output[1][1]) = written_text(0)

---------------------------------------------------------------------------
\* C16.  Single write at the end: apply_content writes the output
\* presentation exactly once, as the last step after replacements, slide
\* deletion and summary insertion (a run that ends with exit code 0 has
\* written it once; no run writes it twice); when the input or the
\* replacements file is missing, the JSON cannot be parsed, or an exception
\* reaches the top level, the run exits non-zero without having written
\* any output file.
C16_SingleWrite ==
    exit_code # <<>> =>
        /\ Len(output) <= 1
        /\ exit_code = <<0>> => Len(output) = 1
        /\ ~files_loaded => exit_code # <<0>>
        /\ exit_code # <<0>> => output = <<>>

\* What holds of the write in every run: the file is not written when a
\* file is missing or unreadable or a replacement raises, and a run that
\* fails after the write is one whose file gives a value without a length
\* to a slide key beyond the deck.
C16_WriteBeforeTotals ==
    exit_code # <<>> =>
        /\ Len(output) <= 1
        /\ exit_code = <<0>> => Len(output) = 1
        /\ ~files_loaded => (exit_code # <<0>> /\ output = <<>>)
        /\ some_entry_fails => (exit_code # <<0>> /\ output = <<>>)
        /\ (exit_code # <<0>> /\ output # <<>>) =>
              \E n \in slides_out_of_range : slide_entry_value(n) = NullValue

\* A run that has written the output file and ended with exit code 1.
C16_LateFailure ==
    /\ exit_code = <<1>>
    /\ output # <<>>
    /\ files_loaded

---------------------------------------------------------------------------
(* The exit code of a validation run against what was recorded. *)

has_errors == validation.errors # <<>>
has_warnings == validation.warnings # <<>>

\* exit 1 = FAIL (fatal errors), 2 = WARN (non-fatal), 0 = PASS.
exit_by_status(code) ==
    /\ code = 1 <=> has_errors
    /\ code = 2 <=> (~has_errors /\ has_warnings)
    /\ code = 0 <=> (~has_errors /\ ~has_warnings)

\* The run was ended by an exception nothing caught.
ended_by_exception == Len(validation_exit) = 2

\* C17 as stated.  Validation exit codes: for every invocation of
\* validate_content and validate_pptx, the exit code is 1 exactly when at
\* least one fatal error was recorded, 2 exactly when no error but at
\* least one warning was recorded, and 0 exactly when neither was recorded.
C17_ExitCodes ==
    validation_exit # <<>> => exit_by_status(validation_exit[1])

\* C17 as the scripts have it.  For a run that reaches the exit of main,
\* the exit code of validate_pptx, and of validate_content without
\* --strict, is 1 exactly when an error was recorded, 2 exactly when no
\* error but a warning was recorded and 0 exactly when neither was; with
\* --strict validate_content exits 1 exactly when an error or a warning
\* was recorded, 0 otherwise and never 2.  A run ended by an uncaught
\* exception exits 1 whatever was recorded.
C17_ExitCodesWithStrict ==
    validation_exit # <<>> =>
        IF ended_by_exception THEN validation_exit[1] = 1
        ELSE IF validator = "validate_content" /\ strict
        THEN /\ validation_exit[1] = 1 <=> (has_errors \/ has_warnings)
             /\ validation_exit[1] = 0 <=> (~has_errors /\ ~has_warnings)
             /\ validation_exit[1] # 2
        ELSE exit_by_status(validation_exit[1])

\* validate_pptx has recorded warnings and no error and has exited with 2.
C17_Witness ==
    /\ validation_exit = <<2>>
    /\ validator = "validate_pptx"
    /\ ~has_errors /\ has_warnings

\* validate_content --strict has recorded warnings only and exited with 1.
C17_StrictWitness ==
    /\ validation_exit = <<1>>
    /\ validator = "validate_content" /\ strict
    /\ ~has_errors /\ has_warnings

\* validate_content without --strict: 2 on warnings only, 1 on an error.
C17_ContentWitness ==
    /\ validation_exit = <<1>>
    /\ validator = "validate_content" /\ ~strict
    /\ has_errors /\ has_warnings

---------------------------------------------------------------------------
(* The deck reorder_slides is to leave. *)

\* Every index of the sequence names a slide of the template.
sequence_in_range ==
    \A k \in 1..Len(rearrange_args.slide_sequence) :
        rearrange_args.slide_sequence[k] \in 0..(Len(rearrange_args.template) - 1)

\* The positions of the sequence that name the template slide v.
positions_of(v) ==
    {k \in 1..Len(rearrange_args.slide_sequence) :
        rearrange_args.slide_sequence[k] = v}

template_ids == {rearrange_args.template[k].id : k \in 1..Len(rearrange_args.template)}

\* C18.  Slide rearrangement: for every sequence of in-range 0-based
\* indices (repeats allowed), rearrange_presentation produces a deck with
\* exactly len(sequence) slides in which position k holds template slide
\* sequence[k]: the slide itself for one occurrence of an index, a
\* duplicate (a new slide with the same shapes) for each further
\* occurrence, no slide being in the deck twice.
C18_Rearranged ==
    (rearrange_result # <<>> /\ sequence_in_range) =>
        /\ rearrange_result[1].exit_code = 0
        /\ Len(rearrange_result[1].output) = Len(rearrange_args.slide_sequence)
        /\ \A k \in 1..Len(rearrange_args.slide_sequence) :
              rearrange_result[1].output[k].shapes =
                 rearrange_args.template[rearrange_args.slide_sequence[k] + 1].shapes
        /\ \A j, k \in 1..Len(rearrange_result[1].output) :
              j # k => rearrange_result[1].output[j].id # rearrange_result[1].output[k].id
        /\ \A v \in 0..(Len(rearrange_args.template) - 1) :
              positions_of(v) # {} =>
                 /\ \E k \in positions_of(v) :
                       rearrange_result[1].output[k].id = rearrange_args.template[v + 1].id
                 /\ \A k \in positions_of(v) :
                       \/ rearrange_result[1].output[k].id
                             = rearrange_args.template[v + 1].id
                       \/ rearrange_result[1].output[k].id \notin template_ids

\* The sequence 2,0,2,1 on a template of three slides: slide 2 first, its
\* duplicate third, all three phases having had work to do (the sequence
\* 0,2,2 on three slides deletes slide 1 as well).
C18_Witness ==
    /\ rearrange_result # <<>>
    /\ Len(rearrange_args.template) = 3
    /\ rearrange_args.slide_sequence = <<2, 0, 2, 1>>
    /\ Len(rearrange_result[1].output) = 4
    /\ rearrange_result[1].output[1].id = rearrange_args.template[3].id
    /\ rearrange_result[1].output[3].id \notin template_ids
    /\ rearrange_result[1].output[3].shapes = rearrange_args.template[3].shapes

C18_DeleteWitness ==
    /\ rearrange_result # <<>>
    /\ Len(rearrange_args.template) = 3
    /\ rearrange_args.slide_sequence = <<2, 2, 0>>
    /\ Len(rearrange_result[1].output) = 3
    /\ rearrange_result[1].output[3].id = rearrange_args.template[1].id

---------------------------------------------------------------------------
(* C19: merge position. *)

\* A merge has run on two files that exist.
merged == merge_result # <<>> /\ merge_args.template_file # <<>>
          /\ merge_args.source_file # <<>>

\* The slides of the template the source is merged into.
template_slides ==
    IF merge_args.clear_template THEN <<>> ELSE merge_args.template_file[1]

\* Where the claim puts the first source slide (counted from 0).
block_start ==
    IF merge_args.position < 0 \/ merge_args.position > Len(template_slides)
    THEN Len(template_slides)
    ELSE merge_args.position

\* C19: after merge_slides on a template of n slides and a source of m, the
\* output has n + m slides; the source slides stand as one block, in source
\* order, from index position on, or at the end when position is negative or
\* beyond the last slide; the slides of the template are unchanged and in
\* their order before and behind the block; and the count returned is m.
C19_MergePosition ==
    merged =>
        LET out == merge_result[1].output[1]
            src == merge_args.source_file[1]
        IN /\ merge_result[1].merged_count = Len(src)
           /\ Len(out) = Len(template_slides) + Len(src)
           /\ \A k \in 1..Len(src) :
                 out[block_start + k].shapes = MarkerSlide(MaxTemplateSlides + k)
           /\ \A k \in 1..Len(template_slides) :
                 IF k <= block_start
                 THEN out[k] = template_slides[k]
                 ELSE out[k + Len(src)] = template_slides[k]

\* Two source slides were merged between the slides of a template.
C19_Witness ==
    /\ merged
    /\ ~merge_args.clear_template
    /\ merge_args.position = 1
    /\ Len(merge_args.template_file[1]) = 3
    /\ Len(merge_args.source_file[1]) = 2
    /\ merge_result[1].merged_count = 2
    /\ merge_result[1].output[1][2].shapes = MarkerSlide(MaxTemplateSlides + 1)
    /\ merge_result[1].output[1][3].shapes = MarkerSlide(MaxTemplateSlides + 2)
    /\ merge_result[1].output[1][4] = merge_args.template_file[1][2]

\* Source slides were merged at the end: position -1, negative, too large.
C19_EndWitness ==
    /\ merged
    /\ merge_args.position \in {-2, MaxTemplateSlides + 1}
    /\ Len(template_slides) = 2
    /\ Len(merge_args.source_file[1]) = 2
    /\ merge_result[1].output[1][4].shapes = MarkerSlide(MaxTemplateSlides + 2)

---------------------------------------------------------------------------
(* C20: a resumed run reaches completion. *)

\* The build can succeed: the translated content and a template exist and
\* the build command returns 0.
build_ready ==
    /\ workflow_args.content_ja
    /\ workflow_args.template \/ workflow_args.input_pptx
    /\ workflow_args.build_returncode = 0

\* The runs of the claim: from BUILD, or from REVIEW_JSON with the validation
\* passed or skipped.
resumes_from_build == workflow_args.from_phase = "BUILD" /\ build_ready
resumes_from_review ==
    /\ workflow_args.from_phase = "REVIEW_JSON" /\ build_ready
    /\ workflow_args.skip_validation \/ workflow_args.validate_returncode # 1

\* The run went through DONE, marked the escalation, saved the trace and
\* ended with exit code 0.
completed ==
    /\ workflow_exit = <<0>>
    /\ \E k \in 1..Len(trace_file) : trace_file[k] = <<"DONE", "success">>
    /\ tracer_entries = <<>>
    /\ workflow_args.escalation => escalation_file = <<"resolved">>

\* C20: a run resumed from BUILD whose build can succeed (or from
\* REVIEW_JSON, the validation passed or skipped) has, once it has ended, run
\* the phases through to DONE, marked the escalation file as resolved, saved
\* the trace and ended with exit code 0.
C20_ResumeCompletes ==
    (workflow_exit # <<>> /\ (resumes_from_build \/ resumes_from_review))
        => completed

\* The same as a property of the run: such a run leads to completion.
C20_ResumeLeadsToCompletion ==
    (resumes_from_build \/ resumes_from_review) ~> completed

\* What the runs do instead: the build succeeds, REVIEW_PPTX is not
\* implemented, the trace is saved and the run exits with 1, the escalation
\* file as it was.
C20_StopsAtReviewPptx ==
    (workflow_exit # <<>> /\ (resumes_from_build \/ resumes_from_review))
        => /\ workflow_exit = <<1>>
           /\ Head(phases_to_run) = "REVIEW_PPTX"
           /\ trace_file[Len(trace_file)] = <<"BUILD", "success">>
           /\ tracer_entries = <<>>
           /\ escalation_file = (IF workflow_args.escalation THEN <<"open">> ELSE <<>>)

\* Only a run resumed from DONE ends with exit code 0.
C20_OnlyFromDone == workflow_exit = <<0>> => workflow_args.from_phase = "DONE"

\* A run resumed from BUILD with an escalation file has ended.
C20_BuildRunEnded ==
    /\ resumes_from_build /\ workflow_args.escalation /\ workflow_exit # <<>>

\* Every run ends.
C20_RunEnds == <>(workflow_exit # <<>>)

---------------------------------------------------------------------------
(* C21: bullet application. *)

\* The level and the font size of the record applied, with their defaults;
\* the font size is a rational <<n, d>> of points.
record_level ==
    IF para_args.para_data.level = <<>> THEN 0 ELSE para_args.para_data.level[1]
record_font_size ==
    IF para_args.para_data.font_size = <<>> THEN <<18, 1>>
    ELSE para_args.para_data.font_size[1]

\* font_size * (1.6 + level * 1.6) * 12700 and font_size * 0.8 * 12700, the
\* fraction cut off.
expected_margin ==
    (record_font_size[1] * 16 * (1 + record_level) * 12700)
        \div (record_font_size[2] * 10)
expected_hanging ==
    (record_font_size[1] * 8 * 12700) \div (record_font_size[2] * 10)

\* A record with bullet true has been applied.
bullet_applied == para_result # <<>> /\ para_args.para_data.bullet = <<TRUE>>

\* C21: for a record with bullet true, apply_paragraph_formatting sets the
\* left margin to int(font_size * (1.6 + level * 1.6) * 12700) and the
\* indent to int(-font_size * 0.8 * 12700), font_size being 18 when the
\* record has none; it sets the level of the paragraph, adds a bullet
\* character, and the alignment is left when the record has none and the
\* one of the record (left, center, right or justify) when it has one.
C21_BulletApplication ==
    bullet_applied =>
        /\ para_result[1].paragraph.pPr.marL = <<expected_margin>>
        /\ para_result[1].paragraph.pPr.indent = <<0 - expected_hanging>>
        /\ paragraph_level(para_result[1].paragraph) = record_level
        /\ HasTag(para_result[1].paragraph.pPr.bu, "buChar")
        /\ para_args.para_data.alignment = <<>> =>
              para_result[1].paragraph.pPr.algn = <<"LEFT">>
        /\ para_args.para_data.alignment \in {<<"CENTER">>} =>
              para_result[1].paragraph.pPr.algn = <<"CENTER">>

\* A bullet record of level 2 and 10.5 points, without an alignment, has been
\* applied to a right-aligned paragraph of level 1: margin 640080 (the
\* fraction of 640080.0 is none), indent -106680, alignment left.
C21_Witness ==
    /\ bullet_applied
    /\ para_args.para_data.level = <<2>>
    /\ para_args.para_data.font_size = <<Rat(21, 2)>>
    /\ para_args.para_data.alignment = <<>>
    /\ para_args.paragraph.pPr.algn = <<"RIGHT">>
    /\ para_result[1].paragraph.pPr.marL = <<640080>>
    /\ para_result[1].paragraph.pPr.indent = <<-106680>>
    /\ para_result[1].paragraph.pPr.lvl = <<2>>
    /\ para_result[1].paragraph.pPr.algn = <<"LEFT">>

\* A bullet record with the alignment center has been applied to a
\* right-aligned paragraph.
C21_OverrideWitness ==
    /\ bullet_applied
    /\ para_args.para_data.alignment = <<"CENTER">>
    /\ para_args.paragraph.pPr.algn = <<"RIGHT">>
    /\ para_result[1].paragraph.pPr.algn = <<"CENTER">>

\* A bullet record whose alignment has no name in alignment_map leaves the
\* alignment the paragraph had.
C21_UnnamedAlignmentKept ==
    (bullet_applied /\ para_args.para_data.alignment = <<"DISTRIBUTE">>) =>
        para_result[1].paragraph.pPr.algn = para_args.paragraph.pPr.algn

---------------------------------------------------------------------------
(* C22: reorder_slides on a bad sequence. *)

\* reorder_slides has run on a sequence with an index out of range.
bad_sequence_run == rearrange_result # <<>> /\ ~sequence_in_range

\* C22: when an index of the sequence is negative or not less than the
\* number of slides of the template, the run exits with status 1 and there
\* is no file at the output path.
C22_NoOutputOnBadSequence ==
    bad_sequence_run =>
        /\ rearrange_result[1].exit_code = 1
        /\ rearrange_result[1].output_file = <<>>

\* What the run leaves: exit status 1 and, at the output path, the copy of
\* the template made before the indices were validated.
C22_TemplateCopyLeft ==
    bad_sequence_run =>
        /\ rearrange_result[1].exit_code = 1
        /\ rearrange_result[1].output_file = <<rearrange_args.template>>

\* A run that succeeds leaves the rearranged presentation.
C22_SavedOnSuccess ==
    (rearrange_result # <<>> /\ sequence_in_range) =>
        rearrange_result[1].output_file = <<rearrange_result[1].output>>

\* The sequence 0,3 on a template of three slides.
C22_BadSequenceRun ==
    /\ bad_sequence_run
    /\ Len(rearrange_args.template) = 3
    /\ rearrange_args.slide_sequence = <<0, 3>>
    /\ Len(rearrange_result[1].output_file[1]) = 3

---------------------------------------------------------------------------
(* C23: the positions of inserted diagram slides. *)

\* insert_diagram_slides has run.
diagrams_inserted == diagram_result # <<>>

\* The insertions of the config that name a slide of the diagram file.
valid_insertions ==
    {k \in 1..Len(diagram_args.insertions) :
        diagram_args.insertions[k].source_index < Len(diagram_args.diagrams)}

\* The position in the output of the slide inserted for insertion k: the
\* slide with the shapes of its source slide.
inserted_position(k) ==
    CHOOSE pos \in 1..Len(diagram_result[1]) :
        diagram_result[1][pos].shapes =
            diagram_args.diagrams[diagram_args.insertions[k].source_index + 1].shapes

\* The positions of the output that hold slides of the base.
base_ids == {diagram_args.base[k].id : k \in 1..Len(diagram_args.base)}
base_positions ==
    {pos \in 1..Len(diagram_result[1]) : diagram_result[1][pos].id \in base_ids}

\* The slides of the base in the output, in their order.
RECURSIVE base_slides_of(_)
base_slides_of(prs) ==
    IF prs = <<>> THEN <<>>
    ELSE (IF Head(prs).id \in base_ids THEN <<Head(prs)>> ELSE <<>>)
         \o base_slides_of(Tail(prs))

\* Each valid insertion has its slide in the output, and nothing else is new.
slides_inserted ==
    /\ Len(diagram_result[1]) = Len(diagram_args.base) + Cardinality(valid_insertions)
    /\ \A k \in valid_insertions :
          \E pos \in 1..Len(diagram_result[1]) :
              diagram_result[1][pos].shapes =
                  diagram_args.diagrams[diagram_args.insertions[k].source_index + 1].shapes

\* The slide of insertion k lies before the base slide that had the index
\* target_position, behind the base slides before that one: as many base
\* slides precede it as the target says, all of them when the target is
\* beyond the last.
before_target(k) ==
    Cardinality({pos \in base_positions : pos < inserted_position(k)})
        = (IF diagram_args.insertions[k].target_position < Len(diagram_args.base)
           THEN diagram_args.insertions[k].target_position
           ELSE Len(diagram_args.base))

\* The inserted slides stand in ascending order of their targets.
ascending_targets ==
    \A j, k \in valid_insertions :
        diagram_args.insertions[j].target_position
            < diagram_args.insertions[k].target_position
        => inserted_position(j) < inserted_position(k)

\* C23: in the output of insert_diagram_slides every inserted slide lies
\* before the base slide that had the index target_position (behind the last
\* base slide when the target is beyond it), the inserted slides are in
\* ascending order of their targets, and the base slides keep their order.
C23_InsertionPositions ==
    diagrams_inserted =>
        /\ slides_inserted
        /\ base_slides_of(diagram_result[1]) = diagram_args.base
        /\ \A k \in valid_insertions : before_target(k)
        /\ ascending_targets

\* The same without the order of the inserted slides among themselves.
C23_TargetsAndBaseOrder ==
    diagrams_inserted =>
        /\ slides_inserted
        /\ base_slides_of(diagram_result[1]) = diagram_args.base
        /\ \A k \in valid_insertions : before_target(k)

\* The order holds among the insertions whose target is at most one beyond
\* the end of the base; two slides inserted behind that come out in
\* descending order of their targets.
C23_AscendingUpToEnd ==
    diagrams_inserted =>
        \A j, k \in valid_insertions :
            /\ diagram_args.insertions[j].target_position
                  < diagram_args.insertions[k].target_position
            /\ diagram_args.insertions[j].target_position <= Len(diagram_args.base)
            => inserted_position(j) < inserted_position(k)
C23_DescendingBeyondEnd ==
    diagrams_inserted =>
        \A j, k \in valid_insertions :
            /\ Cardinality(valid_insertions) = 2
            /\ diagram_args.insertions[j].target_position
                  < diagram_args.insertions[k].target_position
            /\ diagram_args.insertions[j].target_position > Len(diagram_args.base)
            => inserted_position(j) > inserted_position(k)

\* Two slides inserted into a base of three slides, at 1 and at 2.
C23_InsertedRun ==
    /\ diagrams_inserted
    /\ Len(diagram_args.base) = 3
    /\ diagram_args.insertions =
          <<[source_index |-> 0, target_position |-> 1],
            [source_index |-> 1, target_position |-> 2]>>
    /\ diagram_result[1][2].shapes = diagram_args.diagrams[1].shapes
    /\ diagram_result[1][3] = diagram_args.base[2]
    /\ diagram_result[1][4].shapes = diagram_args.diagrams[2].shapes


---------------------------------------------------------------------------
(* The shapes the entries of one replacements file address. *)

\* p is listed before q: ascending by (absolute top, absolute left) on
\* the slide as it was read, shapes at the same position in pre-order.
visually_before(p, q) ==
    \/ abs_top(slide, p) < abs_top(slide, q)
    \/ (abs_top(slide, p) = abs_top(slide, q)
        /\ abs_left(slide, p) < abs_left(slide, q))
    \/ (abs_top(slide, p) = abs_top(slide, q)
        /\ abs_left(slide, p) = abs_left(slide, q) /\ path_before(p, q))

\* The path of the shape that has ordinal M on the slide as it was read:
\* the surviving shape with M surviving shapes before it.
ordinal_path(M) ==
    CHOOSE p \in surviving(slide) :
        Cardinality({q \in surviving(slide) : visually_before(q, p)}) = M

\* The entries <<M, paragraphs>> of the file under "slide-0" that name an
\* ordinal of the slide as it was read and give it paragraphs.
entries_in_range ==
    LET entries == entries_of(json_data, SlideKey(0))
    IN {<<entries[k][1][2], entries[k][2].paragraphs>> :
            k \in {j \in 1..Len(entries) :
                      /\ entries[j][1] \in ordinals(Cardinality(surviving(slide)))
                      /\ "paragraphs" \in DOMAIN entries[j][2]}}

\* C24 (address resolution against the unmodified file): when the run
\* wrote its output, every shape-M entry under the slide key was applied
\* to the shape that has ordinal M on the slide of the unmodified input
\* file, whatever the other entries of the file did to the other shapes,
\* and every shape no entry addresses is as it was.
C24_AddressedOnUnmodifiedFile ==
    output # <<>> =>
        /\ \A e \in entries_in_range :
              replaced(node_at(output[1][1], ordinal_path(e[1])), e[2])
        /\ \A p \in leaf_paths(slide, <<>>) :
              (\A e \in entries_in_range :
                  p \notin surviving(slide) \/ p # ordinal_path(e[1]))
              => node_at(output[1][1], p) = node_at(slide, p)

\* A file whose first entry left shape-0 of a slide of two text shapes
\* without paragraphs and whose second entry gave shape-1 its text: the
\* output has the text on the shape that was second when the file was read.
C24_Witness ==
    /\ output # <<>>
    /\ Cardinality(surviving(slide)) = 2
    /\ <<0, <<>> >> \in entries_in_range
    /\ \E e \in entries_in_range :
          /\ e[1] = 1 /\ e[2] # <<>>
          /\ replaced(node_at(output[1][1], ordinal_path(1)), e[2])
    /\ node_at(output[1][1], ordinal_path(0)).paragraphs # node_at(slide, ordinal_path(0)).paragraphs

---------------------------------------------------------------------------
(* The keys of an inventory of issues. *)

\* The inventory extract_text_inventory returns for the same file without
\* --issues-only.
full_inventory == extract_text_inventory(deck, FALSE)

\* C25 (issue filtering keeps addresses): with --issues-only every shape
\* that is reported is under the slide-N / shape-M key it has in the full
\* inventory of the same file, and no slide key is listed without a
\* reported shape; a slide key is N for the slide at index N of the file.
C25_IssueFilterKeepsKeys ==
    (extracted /\ issues_only) =>
        \A slide_key \in DOMAIN inventory :
            /\ slide_key \in DOMAIN full_inventory
            /\ slide_key[2] \in 0..(Len(deck) - 1)
            /\ DOMAIN inventory[slide_key] # {}
            /\ \A shape_key \in DOMAIN inventory[slide_key] :
                  /\ shape_key \in DOMAIN full_inventory[slide_key]
                  /\ inventory[slide_key][shape_key]
                        = full_inventory[slide_key][shape_key]

\* A file whose first slide has no issue and whose second slide has a
\* clear box above two crossing boxes: only slide-1 is listed, with
\* shape-1 and shape-2, and the full inventory has shape-0 on both slides.
C25_Witness ==
    /\ extracted /\ issues_only
    /\ Len(deck) >= 2
    /\ DOMAIN inventory = {SlideKey(1)}
    /\ DOMAIN inventory[SlideKey(1)] = {ShapeKey(1), ShapeKey(2)}
    /\ DOMAIN full_inventory = {SlideKey(0), SlideKey(1)}
    /\ DOMAIN full_inventory[SlideKey(0)] = {ShapeKey(0)}
    /\ DOMAIN full_inventory[SlideKey(1)] = {ShapeKey(0), ShapeKey(1), ShapeKey(2)}
    /\ inventory[SlideKey(1)][ShapeKey(2)].placeholder_type = <<"BODY">>

---------------------------------------------------------------------------
(* The font size apply_shape_text applies. *)

\* The size a record requests: its font_size, 18 points when it has none.
requested_size(r) == dict_get(r, "font_size", Rat(18, 1))

\* The record apply_shape_text hands to apply_paragraph_formatting for
\* paragraph i (counted from 1) of the entry a = <<entry, path>>.
applied_record(a, i) ==
    auto_adjust(a[1][2].paragraphs[i], i - 1,
                inches_of(node_at(slide, a[2]).width), SlideKey(0), a[1][1],
                ~no_auto_shrink).para_data

\* The runs of paragraph i of the shape of a in the output.
output_runs(a, i) == node_at(output[1][1], a[2]).paragraphs[i].runs

\* The size attribute of the runs is the applied size, cut to hundredths
\* of a point, and there is none when no size is applied.
stored_as_applied(a, i) ==
    \A k \in 1..Len(output_runs(a, i)) :
        IF dict_has(applied_record(a, i), "font_size")
        THEN /\ output_runs(a, i)[k].sz # <<>>
             /\ RatLe(size_pt(output_runs(a, i)[k].sz[1]),
                      applied_record(a, i).font_size[1])
             /\ RatLt(RatSub(applied_record(a, i).font_size[1], Rat(1, 100)),
                      size_pt(output_runs(a, i)[k].sz[1]))
        ELSE output_runs(a, i)[k].sz = <<>>

\* C26 (applied font size bound): for every paragraph of every shape the
\* run replaced, the size apply_shape_text applies (the font_size of the
\* record it hands to apply_paragraph_formatting, which the runs store) is
\* never larger than the size the record requests (18 points when it
\* names none); when auto-shrink replaces the size, the size applied is
\* less than the requested one and at least 12 points; with auto-shrink
\* disabled the record is applied as it is, with its size or without one.
C26_AppliedSizeBound ==
    output # <<>> =>
        \A a \in addressed :
            \A i \in 1..Len(a[1][2].paragraphs) :
                /\ dict_has(applied_record(a, i), "font_size") =>
                      RatLe(applied_record(a, i).font_size[1],
                            requested_size(a[1][2].paragraphs[i]))
                /\ applied_record(a, i) # a[1][2].paragraphs[i] =>
                      /\ ~no_auto_shrink
                      /\ dict_has(applied_record(a, i), "font_size")
                      /\ RatLt(applied_record(a, i).font_size[1],
                               requested_size(a[1][2].paragraphs[i]))
                      /\ RatLe(Rat(12, 1), applied_record(a, i).font_size[1])
                /\ no_auto_shrink =>
                      applied_record(a, i) = a[1][2].paragraphs[i]
                /\ stored_as_applied(a, i)

\* Auto-shrink replaced the 18 points of a record without font_size by a
\* smaller size, which the run of the output has.
C26_Witness ==
    /\ output # <<>> /\ ~no_auto_shrink
    /\ \E a \in addressed :
          /\ a[1][2].paragraphs # <<>>
          /\ ~dict_has(a[1][2].paragraphs[1], "font_size")
          /\ dict_has(applied_record(a, 1), "font_size")
          /\ output_runs(a, 1) # <<>>
          /\ output_runs(a, 1)[1].sz # <<>>
          /\ RatLt(size_pt(output_runs(a, 1)[1].sz[1]), Rat(18, 1))

\* With auto-shrink disabled a long line of 10 points has its 10 points.
C26_DisabledWitness ==
    /\ output # <<>> /\ no_auto_shrink
    /\ \E a \in addressed :
          /\ a[1][2].paragraphs = <<LongSmallText>>
          /\ output_runs(a, 1)[1].sz = <<1000>>

\* A long line of 10 points, below the floor of 12 points, is not
\* replaced by the 12 points calculate_optimal_font_size returns.
C26_BelowFloorKept ==
    (output # <<>> /\ ~no_auto_shrink) =>
        \A a \in addressed :
            a[1][2].paragraphs = <<LongSmallText>> =>
                output_runs(a, 1)[1].sz = <<1000>>

---------------------------------------------------------------------------
(* The bullet markers after apply_paragraph_formatting, once and twice. *)

\* The elements of pPr that say what bullet a paragraph has.
BulletMarkers == {"buChar", "buNone", "buAutoNum", "buBlip"}

\* The positions of the bullet markers among the bullet elements.
marker_positions(bu) == {k \in 1..Len(bu) : bu[k] \in BulletMarkers}

\* Every bullet element the paragraph had before the call is one of
\* buChar, buNone, buAutoNum, buFont, buSzPct and buSzPts.
prior_elements_cleared ==
    \A k \in 1..Len(para_args.paragraph.pPr.bu) :
        para_args.paragraph.pPr.bu[k] \in ClearedTags

\* The paragraph after the same record is applied to the result.
applied_again ==
    apply_paragraph_formatting(para_result[1].paragraph, para_args.para_data).paragraph

\* C27 (clear-then-rebuild of bullet formatting): after
\* apply_paragraph_formatting on a paragraph whose prior bullet elements
\* are among buChar, buNone, buAutoNum, buFont, buSzPct and buSzPts, pPr
\* has exactly one bullet marker, buChar when bullet is true and buNone
\* otherwise; and applying the same record a second time leaves the bullet
\* elements, the margin, the indent and the text as they were after the
\* first application.
C27_ClearThenRebuild ==
    para_result # <<>> =>
        /\ prior_elements_cleared =>
              /\ Cardinality(marker_positions(para_result[1].paragraph.pPr.bu)) = 1
              /\ HasTag(para_result[1].paragraph.pPr.bu,
                        IF para_args.para_data.bullet = <<TRUE>>
                        THEN "buChar" ELSE "buNone")
        /\ applied_again.pPr.bu = para_result[1].paragraph.pPr.bu
        /\ applied_again.pPr.marL = para_result[1].paragraph.pPr.marL
        /\ applied_again.pPr.indent = para_result[1].paragraph.pPr.indent
        /\ paragraph_text(applied_again) = paragraph_text(para_result[1].paragraph)

\* A bullet record of level 1 applied to a paragraph that had an
\* auto-number marker with a size and a font element, a margin and the text
\* "b": one buChar is left, and the second application changes nothing.
C27_Witness ==
    /\ para_result # <<>>
    /\ para_args.paragraph.pPr.bu = <<"buSzPct", "buFont", "buAutoNum">>
    /\ para_args.paragraph.pPr.marL = <<342900>>
    /\ para_args.paragraph.runs # <<>>
    /\ para_args.para_data.bullet = <<TRUE>>
    /\ para_args.para_data.level = <<1>>
    /\ para_result[1].paragraph.pPr.bu = <<"buChar">>
    /\ applied_again = para_result[1].paragraph

\* A picture bullet is not cleared: the paragraph that had buBlip has two
\* markers after the call.
C27_PictureBulletWitness ==
    /\ para_result # <<>>
    /\ para_args.paragraph.pPr.bu = <<"buBlip">>
    /\ Cardinality(marker_positions(para_result[1].paragraph.pPr.bu)) = 2

---------------------------------------------------------------------------
(* The order of the phases of a resumed run and its end at a failure. *)

\* What makes a phase succeed, read from the branches of run_phase:
\* TRANSLATE always fails, REVIEW_JSON succeeds when the validation is
\* skipped or content_ja.json validates with exit code 0 or 2, BUILD when
\* the build can be run and returns 0, DONE always; REVIEW_PPTX has no
\* branch and fails.
phase_succeeds(phase) ==
    \/ phase = "DONE"
    \/ phase = "BUILD" /\ build_ready
    \/ /\ phase = "REVIEW_JSON"
       /\ \/ workflow_args.skip_validation
          \/ workflow_args.content_ja /\ workflow_args.validate_returncode # 1

\* The phases of PHASES from --from on that come before DONE.
phases_before_done ==
    {PHASES[i] : i \in phase_index(workflow_args.from_phase)..(Len(PHASES) - 1)}

\* The DONE phase of the run has been executed.
done_executed ==
    \E k \in 1..Len(tracer_entries \o trace_file) :
        (tracer_entries \o trace_file)[k] = <<"DONE", "success">>

\* The phases left are a tail of PHASES that starts at --from or later.
in_phases_order ==
    tracer_entries # <<>> \/ workflow_exit # <<>> =>
        \E i \in phase_index(workflow_args.from_phase)..(Len(PHASES) + 1) :
            phases_to_run = SubSeq(PHASES, i, Len(PHASES))

\* DONE is executed, and the escalation file marked, only after every
\* earlier phase of the run succeeded or was skipped.
done_only_after_success ==
    /\ done_executed =>
          \A phase \in phases_before_done :
              already_completed(phase) \/ phase_succeeds(phase)
    /\ (workflow_args.escalation /\ escalation_file # <<"open">>) => done_executed

\* A step of the run: none is taken after the exit; the phases are taken
\* from the head of the list, one at a time; a phase that fails ends the
\* run at once with the trace saved and exit code 1, the list and the
\* escalation file as they were; exit code 0 is given only when no phase
\* is left.
resume_step ==
    /\ workflow_exit = <<>>
    /\ tracer_entries # <<>> =>
          \/ phases_to_run' = phases_to_run
          \/ phases_to_run # <<>> /\ phases_to_run' = Tail(phases_to_run)
    /\ (tracer_entries # <<>> /\ phases_to_run # <<>>
        /\ ~already_completed(Head(phases_to_run))
        /\ ~phase_succeeds(Head(phases_to_run))) =>
          /\ workflow_exit' = <<1>>
          /\ tracer_entries' = <<>>
          /\ Len(trace_file') >= Len(trace_file) + Len(tracer_entries)
          /\ \A k \in 1..Len(tracer_entries) :
                trace_file'[Len(trace_file) + k] = tracer_entries[k]
          /\ phases_to_run' = phases_to_run
          /\ escalation_file' = escalation_file
    /\ workflow_exit' = <<0>> => phases_to_run = <<>>

\* C28 (resume stops at the first failure): the phases are run in PHASES
\* order from --from on, INIT, PLAN and EXTRACT passed over; the first
\* phase that fails saves the trace and ends the run with exit code 1
\* before any later phase is run; DONE is executed, and the escalation
\* file marked resolved, only if every earlier phase of the run succeeded
\* or was skipped.
C28_StopsAtFirstFailure ==
    /\ [](in_phases_order /\ done_only_after_success)
    /\ [][resume_step]_vars

\* A run resumed from EXTRACT: EXTRACT was passed over, TRANSLATE failed,
\* the trace was saved with its entries and the run ended with 1, the
\* phases from TRANSLATE on not run and the escalation file still open.
C28_Witness ==
    /\ workflow_args.from_phase = "EXTRACT" /\ workflow_args.escalation
    /\ workflow_exit = <<1>>
    /\ phases_to_run = phases_from("TRANSLATE")
    /\ trace_file = <<<<"RESUME", "started">>, <<"TRANSLATE", "started">>,
                      <<"TRANSLATE", "failed">>>>
    /\ tracer_entries = <<>>
    /\ escalation_file = <<"open">>

\* A run resumed from REVIEW_JSON whose validation passed and whose build
\* failed: it ended at BUILD with 1, DONE not executed.
C28_BuildFailedWitness ==
    /\ workflow_args.from_phase = "REVIEW_JSON" /\ ~workflow_args.skip_validation
    /\ workflow_exit = <<1>>
    /\ Head(phases_to_run) = "BUILD"
    /\ trace_file[Len(trace_file)] = <<"BUILD", "failed">>
    /\ ~done_executed

\* A run resumed from DONE executed DONE and ended with 0.
C28_DoneWitness ==
    /\ workflow_args.from_phase = "DONE" /\ workflow_args.escalation
    /\ workflow_exit = <<0>> /\ done_executed
    /\ escalation_file = <<"resolved">>
====
